---- MODULE Spec2Model ----
(***************************************************************************)
(* Font cache of spaceship-game (src/gfx/text.rs): FontCache, its loading  *)
(* operations load_font_file / load_multiple_font_files, the parallel     *)
(* parse step load_raw_data and the sequential commit step store_raw_data, *)
(* its lookups find_font / search_fonts, and the GlyphCache with its atlas, *)
(* get_glyph_texture_bounds and queue_write_texture_if_changed.            *)
(*                                                                         *)
(* Strings are sequences of one-character strings, Option<T> is a sequence *)
(* of length 0 (None) or 1 (Some), a Vec / SmallVec is a sequence, a       *)
(* HashMap is a function whose DOMAIN is the set of keys.                  *)
(***************************************************************************)
EXTENDS Integers, Sequences, FiniteSets, TLC

\* ------------------------------------------------------------------ bounds
\* The arena never holds more than MaxArena buffers in the model.
MaxArena == 2
\* load_multiple_font_files is called with at most MaxBatch paths.
MaxBatch == 2
\* The glyph atlas of the model: bytes in a row of the texture (four to a
\* pixel) and rows.
TextureRowSize == 8
TextureRows == 2
\* The threads that hold FontRefs of the cache at the same time.
MaxThreads == 2
\* The glyphs prepared into a pair of buffers while the model watches.
MaxPrepared == 2
MaxStateNumber == 4

\* ------------------------------------------------------ Option and strings
None == <<>>
Some(x) == <<x>>
IsSome(o) == Len(o) = 1
Unwrap(o) == o[1]

Range(s) == {s[i] : i \in DOMAIN s}
Contains(s, x) == \E i \in DOMAIN s : s[i] = x

EmptyMap == [x \in {} |-> 0]
\* HashMap::insert: the value of an existing key is overwritten.
Insert(m, k, v) == [x \in DOMAIN m \cup {k} |-> IF x = k THEN v ELSE m[x]]

UpperCase == <<"A","B","C","D","E","F","G","H","I","J","K","L","M",
               "N","O","P","Q","R","S","T","U","V","W","X","Y","Z">>
LowerCase == <<"a","b","c","d","e","f","g","h","i","j","k","l","m",
               "n","o","p","q","r","s","t","u","v","w","x","y","z">>

\* u8::to_ascii_lowercase on the letters A-Z; every other character is kept.
AsciiLowercase ==
    [c \in Range(UpperCase) |->
        LowerCase[CHOOSE i \in DOMAIN UpperCase : UpperCase[i] = c]]

char_to_ascii_lowercase(c) ==
    IF c \in DOMAIN AsciiLowercase THEN AsciiLowercase[c] ELSE c

\* str::to_ascii_lowercase
to_ascii_lowercase(s) == [i \in DOMAIN s |-> char_to_ascii_lowercase(s[i])]

\* char::to_lowercase on the characters of the model: the letters A-Z and
\* the capital E with acute accent, written "E'" here ("e'" in lower case).
char_to_lowercase(c) ==
    IF c = "E'" THEN "e'" ELSE char_to_ascii_lowercase(c)

\* str::to_lowercase
to_lowercase(s) == [i \in DOMAIN s |-> char_to_lowercase(s[i])]

\* Option<&str>::map(str::to_ascii_lowercase)
map_to_ascii_lowercase(o) == [i \in DOMAIN o |-> to_ascii_lowercase(o[i])]

\* --------------------------------------------------------- the file system
\* Names found in the font files of the model.
Arial == <<"A","r","i","a","l">>
arial == <<"a","r","i","a","l">>
Regular == <<"R","e","g","u","l","a","r">>
Bold == <<"B","o","l","d">>
Heavy == <<"H","e","a","v","y">>
Ete == <<"E'","t","e'">>
ArialRegular == Arial \o <<" ">> \o Regular

\* OpenType feature tags, in the order String's Ord gives them.
FeatureTags == <<"kern", "liga", "smcp">>

\* One font of a file as skrifa reads it: the name table strings, head's
\* font revision, fvar's axes and named instances (each with the string its
\* subfamily_name_id resolves to, if any), and the feature records of GSUB
\* and of GPOS.
Font(fam, sub, rev, axes, instances, gsub, gpos) ==
    [family_name |-> fam, subfamily_name |-> sub, font_revision |-> rev,
     axes |-> axes, named_instances |-> instances, gsub |-> gsub, gpos |-> gpos]

\* The file contents of the model, by name.  parsable is whether
\* FileRef::new accepts the bytes, fonts is what FileRef::fonts yields, len is
\* the number of bytes.
\*   "A"    Arial/Regular, 1 axis, 1 feature (liga, in GSUB and GPOS), 1 instance, rev 1
\*   "B"    Arial/Regular, 2 axes, no feature, no instance, rev 0
\*   "Coll" Arial/Regular, 1 axis, 1 feature, 1 instance, rev 2; and Arial/Bold
\*   "Dup"  Arial/Regular twice: 1 axis, 3 features, rev 0; 1 axis, 1 feature, 2 instances, rev 0
\*   "NoSub" arial without subfamily, 1 axis, 1 feature, 1 instance, rev 1
\*   "Junk" bytes that are no font file
\*   "NoFamily" a collection whose second font has no family name
\*   "NoInstName" a font with a named instance whose name id resolves to nothing
FileData ==
    [A |-> [parsable |-> TRUE, len |-> 3, fonts |-> <<
              Font(Some(Arial), Some(Regular), 1, <<"wght">>, <<Some(Heavy)>>,
                   <<"liga">>, <<"liga">>) >>],
     B |-> [parsable |-> TRUE, len |-> 5, fonts |-> <<
              Font(Some(Arial), Some(Regular), 0, <<"wght", "wdth">>, <<>>,
                   <<>>, <<>>) >>],
     Coll |-> [parsable |-> TRUE, len |-> 7, fonts |-> <<
              Font(Some(Arial), Some(Regular), 2, <<"wght">>, <<Some(Heavy)>>,
                   <<"liga">>, <<>>),
              Font(Some(Arial), Some(Bold), 1, <<>>, <<>>, <<>>, <<"kern">>) >>],
     Dup |-> [parsable |-> TRUE, len |-> 4, fonts |-> <<
              Font(Some(Arial), Some(Regular), 0, <<"wght">>, <<>>,
                   <<"liga", "smcp">>, <<"kern", "liga">>),
              Font(Some(Arial), Some(Regular), 0, <<"wght">>,
                   <<Some(Heavy), Some(Bold)>>, <<>>, <<"kern">>) >>],
     NoSub |-> [parsable |-> TRUE, len |-> 2, fonts |-> <<
              Font(Some(arial), None, 1, <<"wght">>, <<Some(Heavy)>>,
                   <<"liga">>, <<>>) >>],
     Junk |-> [parsable |-> FALSE, len |-> 1, fonts |-> <<>>],
     NoFamily |-> [parsable |-> TRUE, len |-> 6, fonts |-> <<
              Font(Some(Arial), Some(Bold), 1, <<>>, <<>>, <<>>, <<>>),
              Font(None, Some(Regular), 1, <<>>, <<>>, <<>>, <<>>) >>],
     NoInstName |-> [parsable |-> TRUE, len |-> 8, fonts |-> <<
              Font(Some(Arial), Some(Heavy), 1, <<"wght">>, <<Some(Heavy), None>>,
                   <<>>, <<>>) >>],
     Accent |-> [parsable |-> TRUE, len |-> 9, fonts |-> <<
              Font(Some(Ete), Some(Bold), 1, <<>>, <<>>, <<>>, <<>>) >>],
     Phrase |-> [parsable |-> TRUE, len |-> 10, fonts |-> <<
              Font(Some(ArialRegular), Some(Bold), 1, <<>>, <<>>, <<>>, <<>>) >>]]

Contents == DOMAIN FileData

\* The paths of the model and Path::extension of each.
PathExtension ==
    [a_ttf |-> Some(<<"t","t","f">>),
     c_TTC |-> Some(<<"T","T","C">>),
     d_txt |-> Some(<<"t","x","t">>),
     e |-> None]

Paths == DOMAIN PathExtension

\* What a path can be found to hold when it is loaded: one of the contents,
\* nothing (NotFound: std::fs::exists is false) or something std::fs::read
\* cannot read (Unreadable).  Files is the set of pairs <<path, what it
\* holds>> the loads of the model meet.
Files ==
    ({"a_ttf", "c_TTC"} \X Contents)
        \cup {<<"a_ttf", "NotFound">>, <<"c_TTC", "Unreadable">>,
              <<"d_txt", "A">>, <<"e", "B">>,
              <<"d_txt", "NotFound">>, <<"e", "Unreadable">>}

VARIABLES
    paths,                     \* FontCache::paths
    font_file_types,           \* FontCache::font_file_types
    paths_to_font_idxs,        \* FontCache::paths_to_font_idxs
    paths_to_data_refs,        \* FontCache::paths_to_data_refs
    raw_data_hashes_to_paths,  \* FontCache::raw_data_hashes_to_paths
    font_datas,                \* FontCache::font_datas
    lazy_font_datas,           \* FontCache::lazy_font_datas
    DATA,                      \* the static arena behind FontCache::raw_data
    debug_assertions,          \* whether the build checks debug_assert!
    panicked,                  \* a panic unwound out of the cache
    ret,                       \* the call that is returning, with its value
    first_results,             \* content hash -> what the first load_font_file
                               \* that met the content returned
    par                        \* the load_multiple_font_files call whose
                               \* parallel phase is running

VARIABLES
    atlas,                     \* GlyphCache::atlas: AllocId -> rectangle
    draw_texture,              \* GlyphCache::draw_texture
    texture,                   \* GlyphCache::texture
    texture_data_dirty,        \* GlyphCache::texture_data_dirty
    glyph_map,                 \* GlyphCache::glyph_map
    rasterizer_calls,          \* GlyphCacheKey -> number of render_mask calls
    gpu_texture,               \* TextRenderer::texture as last written
    glyph_panicked,            \* a panic unwound out of the glyph cache
    glyph_ret,                 \* the last call on the glyph cache, with its value
    first_bounds               \* GlyphCacheKey -> what the first
                               \* get_glyph_texture_bounds for it returned

VARIABLES
    threads,                   \* what each thread holding a FontRef is doing
    vertices,                  \* the Vec<GlyphVertex> of the caller of the glyph cache
    indices                    \* the Vec<u16> of the caller of the glyph cache

VARIABLES
    shaper,                    \* the FontShaper a caller holds, if any
    app                        \* the App of main.rs: its window and the
                               \* counters and clock of its GameState

draw_vars == <<threads, vertices, indices, shaper, app>>

glyph_vars == <<atlas, draw_texture, texture, texture_data_dirty, glyph_map,
                rasterizer_calls, gpu_texture, glyph_panicked, glyph_ret,
                first_bounds>>

vars == <<paths, font_file_types, paths_to_font_idxs, paths_to_data_refs,
          raw_data_hashes_to_paths, font_datas, lazy_font_datas, DATA,
          debug_assertions, panicked, ret, first_results, par, glyph_vars,
          draw_vars>>


\* ------------------------------------------------------------- Result<T, E>
Ok(v) == [ok |-> TRUE, val |-> v]
Err(e) == [ok |-> FALSE, err |-> e]

\* DefaultHasher over the bytes of a file: equal contents have equal hashes;
\* the contents of the model have pairwise different 64-bit hashes.
raw_data_hash_of(file) ==
    CASE file = "A" -> 17
      [] file = "B" -> 23
      [] file = "Coll" -> 31
      [] file = "Dup" -> 43
      [] file = "NoSub" -> 59
      [] file = "Junk" -> 61
      [] file = "NoFamily" -> 71
      [] file = "NoInstName" -> 83
      [] file = "Accent" -> 97
      [] file = "Phrase" -> 101

\* A variant of from_path that looks at the extension before it looks for
\* the file.
from_path_extension_first(path, file) ==
    LET ext == map_to_ascii_lowercase(PathExtension[path])
    IN  IF ext \in {Some(<<"t","t","c">>), Some(<<"o","t","c">>)}
            THEN IF file # "NotFound" THEN Ok("Collection") ELSE Err("NotFound")
        ELSE IF ext \in {Some(<<"t","t","f">>), Some(<<"o","t","f">>)}
            THEN IF file # "NotFound" THEN Ok("Single") ELSE Err("NotFound")
        ELSE Err("FileExtension")

\* FontFileType::from_path
from_path(path, file) ==
    IF file # "NotFound"
    THEN LET ext == map_to_ascii_lowercase(PathExtension[path])
         IN  IF ext \in {Some(<<"t","t","c">>), Some(<<"o","t","c">>)}
                 THEN Ok("Collection")
             ELSE IF ext \in {Some(<<"t","t","f">>), Some(<<"o","t","f">>)}
                 THEN Ok("Single")
             ELSE Err("FileExtension")
    ELSE Err("NotFound")

\* Vec::sort on the feature tags followed by Vec::dedup.
sort_dedup_features(tags) ==
    LET Present(t) == Contains(tags, t)
    IN  SelectSeq(FeatureTags, Present)

\* The body of the loop over file_ref.fonts() in load_raw_data, for the font
\* at position font_ref_idx (from 0) of the file.
parse_font(font, font_ref_idx) ==
    IF ~IsSome(font.family_name) THEN Err("MissingData")
    ELSE IF \E i \in DOMAIN font.named_instances : ~IsSome(font.named_instances[i])
    THEN Err("NamedInstanceHasNoName")
    ELSE Ok([font_ref_idx |-> font_ref_idx,
             family_name |-> Unwrap(font.family_name),
             subfamily_name |-> font.subfamily_name,
             revision |-> font.font_revision,
             variation_axes |-> font.axes,
             named_instances |->
                 [i \in DOMAIN font.named_instances |->
                     [name |-> Unwrap(font.named_instances[i]),
                      named_instance_index |-> i - 1]],
             features |-> sort_dedup_features(font.gsub \o font.gpos)])

\* FontCache::load_raw_data.  raw_data_hashes_to_paths is the table the caller
\* hands in, raw_data_ref the arena slot the bytes get if they are appended.
\* alloc tells whether the bytes were appended to the arena.
load_raw_data(path, file, hashes, raw_data_ref) ==
    LET font_file_type == from_path(path, file)
    IN  IF ~font_file_type.ok THEN [result |-> font_file_type, alloc |-> FALSE]
        ELSE IF file = "Unreadable" THEN [result |-> Err("Io"), alloc |-> FALSE]
        ELSE IF raw_data_hash_of(file) \in DOMAIN hashes
        THEN [result |-> Ok([kind |-> "AlreadyCached",
                             path |-> hashes[raw_data_hash_of(file)]]),
              alloc |-> FALSE]
        ELSE IF ~FileData[file].parsable
        THEN [result |-> Err("Parse"), alloc |-> TRUE]
        ELSE LET fonts == FileData[file].fonts
                 parsed == [i \in DOMAIN fonts |-> parse_font(fonts[i], i - 1)]
                 failed == {i \in DOMAIN fonts : ~parsed[i].ok}
             IN  IF failed # {}
                 THEN [result |->
                          parsed[CHOOSE i \in failed : \A j \in failed : i <= j],
                       alloc |-> TRUE]
                 ELSE [result |-> Ok([kind |-> "New",
                                      path |-> path,
                                      raw_data_ref |-> raw_data_ref,
                                      raw_data_hash |-> raw_data_hash_of(file),
                                      font_file_type |-> font_file_type.val,
                                      font_datas |->
                                          [i \in DOMAIN fonts |-> parsed[i].val]]),
                       alloc |-> TRUE]

\* ------------------------------------------------------------ the FontCache
\* Vec indexing with the code's indices, which start at 0.
At(s, i) == s[i + 1]

\* LazyFontCacheData::new
LazyFontCacheData_new ==
    [ext_font_ref |-> None, shaper_data |-> None, outline_glyphs_ref |-> None]

\* is_match of FontCache::find_font
find_font_is_match(cached_family_name, cached_subfamily_name, family_name, subfamily_name) ==
    /\ to_ascii_lowercase(cached_family_name) = to_ascii_lowercase(family_name)
    /\ \/ ~IsSome(subfamily_name)
       \/ map_to_ascii_lowercase(cached_subfamily_name)
              = map_to_ascii_lowercase(subfamily_name)

\* A variant that returns the last of the matching entries.
find_font_last_match(fds, family_name, subfamily_name) ==
    LET Matches(i) == find_font_is_match(At(fds, i).family_name,
                                         At(fds, i).subfamily_name,
                                         family_name, subfamily_name)
        family_idxs == SelectSeq([i \in 1 .. Len(fds) |-> i - 1], Matches)
    IN  IF Len(family_idxs) = 1 \/ (~IsSome(subfamily_name) /\ Len(family_idxs) > 0)
        THEN Ok(family_idxs[Len(family_idxs)])
        ELSE Err("NotCached")

\* FontCache::find_font; the value is the cache index of the FontRef.
find_font(fds, family_name, subfamily_name) ==
    LET Matches(i) == find_font_is_match(At(fds, i).family_name,
                                         At(fds, i).subfamily_name,
                                         family_name, subfamily_name)
        family_idxs == SelectSeq([i \in 1 .. Len(fds) |-> i - 1], Matches)
    IN  IF Len(family_idxs) = 1 \/ (~IsSome(subfamily_name) /\ Len(family_idxs) > 0)
        THEN Ok(family_idxs[1])
        ELSE Err("NotCached")

\* str::contains with a str pattern: pat occurs in s as a run of characters;
\* the empty pattern occurs in every string.
contains(s, pat) ==
    \E k \in 0 .. Len(s) - Len(pat) : SubSeq(s, k + 1, k + Len(pat)) = pat

\* str::split(' '): the pieces between the spaces, empty pieces included.
RECURSIVE split(_)
split(s) ==
    IF \E i \in DOMAIN s : s[i] = " "
    THEN LET i == CHOOSE j \in DOMAIN s :
                     s[j] = " " /\ \A k \in 1 .. j - 1 : s[k] # " "
         IN  <<SubSeq(s, 1, i - 1)>> \o split(SubSeq(s, i + 1, Len(s)))
    ELSE <<s>>

\* [&str]::join(" ")
RECURSIVE join(_)
join(terms) ==
    IF terms = <<>> THEN <<>>
    ELSE IF Len(terms) = 1 THEN terms[1]
    ELSE terms[1] \o <<" ">> \o join(Tail(terms))

\* is_match of FontCache::search_fonts
search_fonts_is_match(cached_family_name, cached_subfamily_name, family_name, subfamily_name) ==
    /\ contains(to_ascii_lowercase(cached_family_name), to_lowercase(family_name))
    /\ \/ ~IsSome(subfamily_name)
       \/ /\ IsSome(cached_subfamily_name)
          /\ contains(to_ascii_lowercase(Unwrap(cached_subfamily_name)),
                      to_lowercase(Unwrap(subfamily_name)))

\* A variant of the filter that tries one as the family only.
search_fonts_filter_one_way(fd, one, two) ==
    /\ one # <<>>
    /\ search_fonts_is_match(fd.family_name, fd.subfamily_name, one,
                             IF two = <<>> THEN None ELSE Some(two))

\* The closure search_fonts filters the entries with in a round.
search_fonts_filter(fd, one, two) ==
    \/ /\ one # <<>>
       /\ search_fonts_is_match(fd.family_name, fd.subfamily_name, one,
                                IF two = <<>> THEN None ELSE Some(two))
    \/ /\ two # <<>>
       /\ search_fonts_is_match(fd.family_name, fd.subfamily_name, two,
                                IF one = <<>> THEN None ELSE Some(one))

\* The cache indices the loop of search_fonts has pushed to results in the
\* rounds i .. tlen.
RECURSIVE search_fonts_rounds(_, _, _)
search_fonts_rounds(fds, terms, i) ==
    IF i > Len(terms) THEN <<>>
    ELSE LET one == join(SubSeq(terms, 1, i))
             two == join(SubSeq(terms, i + 1, Len(terms)))
             Filter(idx) == search_fonts_filter(At(fds, idx), one, two)
         IN  SelectSeq([k \in 1 .. Len(fds) |-> k - 1], Filter)
                 \o search_fonts_rounds(fds, terms, i + 1)

\* A variant of the condition that compares the features before the
\* variation axes.
is_better_features_first(fd, existing) ==
    \/ Len(fd.features) > Len(existing.features)
    \/ /\ Len(fd.features) = Len(existing.features)
       /\ Len(fd.variation_axes) > Len(existing.variation_axes)
    \/ /\ Len(fd.features) = Len(existing.features)
       /\ Len(fd.variation_axes) = Len(existing.variation_axes)
       /\ Len(fd.named_instances) > Len(existing.named_instances)
    \/ /\ Len(fd.features) = Len(existing.features)
       /\ Len(fd.variation_axes) = Len(existing.variation_axes)
       /\ Len(fd.named_instances) = Len(existing.named_instances)
       /\ fd.revision > existing.revision

\* The condition of store_raw_data under which the new font replaces the
\* existing one.
is_better(fd, existing) ==
    \/ Len(fd.variation_axes) > Len(existing.variation_axes)
    \/ /\ Len(fd.variation_axes) = Len(existing.variation_axes)
       /\ Len(fd.features) > Len(existing.features)
    \/ /\ Len(fd.variation_axes) = Len(existing.variation_axes)
       /\ Len(fd.features) = Len(existing.features)
       /\ Len(fd.named_instances) > Len(existing.named_instances)
    \/ /\ Len(fd.variation_axes) = Len(existing.variation_axes)
       /\ Len(fd.features) = Len(existing.features)
       /\ Len(fd.named_instances) = Len(existing.named_instances)
       /\ fd.revision > existing.revision


\* The FontCache as one value.
Cache ==
    [paths |-> paths,
     font_file_types |-> font_file_types,
     paths_to_font_idxs |-> paths_to_font_idxs,
     paths_to_data_refs |-> paths_to_data_refs,
     raw_data_hashes_to_paths |-> raw_data_hashes_to_paths,
     font_datas |-> font_datas,
     lazy_font_datas |-> lazy_font_datas]

\* self.paths_to_font_idxs.values().map(SmallVec::len).sum()
RECURSIVE sum_of_lens_over(_, _)
sum_of_lens_over(m, keys) ==
    IF keys = {} THEN 0
    ELSE LET k == CHOOSE x \in keys : TRUE
         IN  Len(m[k]) + sum_of_lens_over(m, keys \ {k})

linked_idxs_count(m) == sum_of_lens_over(m, DOMAIN m)

\* A variant that leaves the index in the SmallVec.
remove_first_noop(s, x) == s

\* SmallVec::remove(position of the first element equal to x)
remove_first(s, x) ==
    LET pos == CHOOSE i \in DOMAIN s : s[i] = x /\ \A j \in 1 .. i - 1 : s[j] # x
    IN  [i \in 1 .. Len(s) - 1 |-> IF i < pos THEN s[i] ELSE s[i + 1]]

\* What one run of store_raw_data leaves: the cache, the value returned, and
\* whether it panicked instead of returning.
Outcome(st, result, p) == [st |-> st, result |-> result, panicked |-> p]

\* A variant of the early return that records the path of the failed file.
store_err_records_path(st, raw_cache_data) ==
    {Outcome([st EXCEPT !.paths = Append(@, "a_ttf"),
                        !.font_file_types = Append(@, "Single")],
             raw_cache_data, FALSE)}

\* The early return of store_raw_data for an Err of load_raw_data: the error
\* is handed on and the cache is not touched.
store_err(st, raw_cache_data) == {Outcome(st, raw_cache_data, FALSE)}

\* The first part of store_raw_data up to the first write, for a
\* RawCacheResult::New: each font of the file is new, replaces the entry
\* find_font gives, or is skipped.
classify(st, raw) ==
    LET n == Len(raw.font_datas)
        fd(i) == [raw_data_ref |-> raw.raw_data_ref,
                  font_ref_idx |-> raw.font_datas[i].font_ref_idx,
                  family_name |-> raw.font_datas[i].family_name,
                  subfamily_name |-> raw.font_datas[i].subfamily_name,
                  revision |-> raw.font_datas[i].revision,
                  variation_axes |-> raw.font_datas[i].variation_axes,
                  named_instances |-> raw.font_datas[i].named_instances,
                  features |-> raw.font_datas[i].features]
        existing(i) == find_font(st.font_datas, fd(i).family_name,
                                 fd(i).subfamily_name)
        IsNew(i) == ~existing(i).ok
        IsReplace(i) == existing(i).ok
                        /\ is_better(fd(i), At(st.font_datas, existing(i).val))
        IsSkipped(i) == existing(i).ok
                        /\ ~is_better(fd(i), At(st.font_datas, existing(i).val))
        all == [i \in 1 .. n |-> i]
        news == SelectSeq(all, IsNew)
        repl == SelectSeq(all, IsReplace)
        skip == SelectSeq(all, IsSkipped)
    IN  [new_font_datas |-> [k \in DOMAIN news |-> fd(news[k])],
         replace_font_datas |->
             [k \in DOMAIN repl |-> <<existing(repl[k]).val, fd(repl[k])>>],
         skipped_font_idxs |-> [k \in DOMAIN skip |-> existing(skip[k]).val]]

\* A variant of the replacement that keeps the lazy data of the entry.
keep_lazy_font_data(lazy_font_data) == lazy_font_data

\* self.lazy_font_datas[font_data.0] = LazyFontCacheData::new()
reset_lazy_font_data(lazy_font_data) == LazyFontCacheData_new

\* The loop of store_raw_data over replace_font_datas.  The paths that hold
\* the index come from an iteration over a HashMap, so with more than one of
\* them any may be old_paths[0].  The value is the set of pairs <<cache, panicked>>.
RECURSIVE apply_replacements(_, _, _, _)
apply_replacements(st, path, replace_font_datas, debug) ==
    IF replace_font_datas = <<>> THEN {<<st, FALSE>>}
    ELSE LET font_data == Head(replace_font_datas)
             old_paths == {p \in DOMAIN st.paths_to_font_idxs :
                              p # path /\ Contains(st.paths_to_font_idxs[p], font_data[1])}
             unlinked(old_path) ==
                 [st EXCEPT
                    !.paths_to_font_idxs[old_path] = remove_first(@, font_data[1]),
                    !.font_datas[font_data[1] + 1] = font_data[2],
                    !.lazy_font_datas[font_data[1] + 1] = reset_lazy_font_data(@)]
         IN  IF (debug /\ Cardinality(old_paths) # 1) \/ old_paths = {}
             THEN {<<st, TRUE>>}
             ELSE UNION {apply_replacements(unlinked(old_path), path,
                                            Tail(replace_font_datas), debug) :
                         old_path \in old_paths}

\* A variant of the bookkeeping that leaves the hash of the content out.
record_path_without_hash(st, raw, idxs) ==
    [st EXCEPT
       !.paths = Append(@, raw.path),
       !.font_file_types = Append(@, raw.font_file_type),
       !.paths_to_font_idxs = Insert(@, raw.path, idxs),
       !.paths_to_data_refs = Insert(@, raw.path, raw.raw_data_ref)]

\* The path and hash bookkeeping of store_raw_data, the same in the branch
\* of a file without new data and in the branch of a file with: the path is
\* pushed, and mapped to by the hash, and mapped to the indices idxs and to
\* the bytes.
record_path(st, raw, idxs) ==
    [st EXCEPT
       !.paths = Append(@, raw.path),
       !.raw_data_hashes_to_paths = Insert(@, raw.raw_data_hash, raw.path),
       !.font_file_types = Append(@, raw.font_file_type),
       !.paths_to_font_idxs = Insert(@, raw.path, idxs),
       !.paths_to_data_refs = Insert(@, raw.path, raw.raw_data_ref)]

\* A variant of the range that starts at index 0.
collect_range_from_zero(start, end) == [k \in 1 .. end - start |-> k - 1]

\* (start..end).collect()
collect_range(start, end) == [k \in 1 .. end - start |-> start + k - 1]

\* The sanity checks of store_raw_data before its modifications, for a file
\* with new_len new fonts.
sanity_checks_before(st, new_len) ==
    /\ Len(st.paths) = Len(st.font_file_types)
    /\ Len(st.paths) = Cardinality(DOMAIN st.paths_to_font_idxs)
    /\ Len(st.paths) = Cardinality(DOMAIN st.raw_data_hashes_to_paths)
    /\ Len(st.font_datas) + new_len
           = linked_idxs_count(st.paths_to_font_idxs) + new_len

\* FontCache::store_raw_data: the set of outcomes of committing the result of
\* load_raw_data to the cache st.  debug is whether debug_assert! is checked.
store_raw_data(st, raw_cache_data, debug) ==
    IF ~raw_cache_data.ok THEN store_err(st, raw_cache_data)
    ELSE IF raw_cache_data.val.kind = "AlreadyCached"
    THEN {Outcome(st,
                  Ok([kind |-> "AlreadyCached",
                      path |-> raw_cache_data.val.path,
                      idxs |-> st.paths_to_font_idxs[raw_cache_data.val.path]]),
                  FALSE)}
    ELSE
    LET raw == raw_cache_data.val
        path == raw.path
        c == classify(st, raw)
        new_font_datas == c.new_font_datas
        replace_font_datas == c.replace_font_datas
        skipped_font_idxs == c.skipped_font_idxs
        recorded(idxs) == record_path(st, raw, idxs)
        new_fonts_start_index == Len(st.font_datas)
        new_fonts_end_index == new_fonts_start_index + Len(new_font_datas)
        new_font_idxs == collect_range(new_fonts_start_index, new_fonts_end_index)
        font_datas_extended_len == Len(st.font_datas) + Len(new_font_datas)
        replaced_font_idxs == [k \in DOMAIN replace_font_datas |->
                                  replace_font_datas[k][1]]
        checks_before == sanity_checks_before(st, Len(new_font_datas))
        extended(s) ==
            [s EXCEPT
               !.lazy_font_datas =
                   @ \o [k \in 1 .. Len(new_font_datas) |-> LazyFontCacheData_new],
               !.font_datas = @ \o new_font_datas]
        finish(s) ==
            IF debug /\ font_datas_extended_len # linked_idxs_count(s.paths_to_font_idxs)
            THEN Outcome(s, Err("panic"), TRUE)
            ELSE Outcome(extended(s),
                         Ok([kind |-> "New",
                             path |-> path,
                             newly_cached |-> new_font_idxs,
                             replaced |-> replaced_font_idxs,
                             skipped |-> skipped_font_idxs]),
                         FALSE)
    IN  IF new_font_datas = <<>> /\ replace_font_datas = <<>>
        THEN {Outcome(recorded(<<>>),
                      Ok([kind |-> "NoNewData",
                          path |-> path,
                          existing_idxs |-> skipped_font_idxs]),
                      FALSE)}
        ELSE IF debug /\ ~checks_before
        THEN {Outcome(st, Err("panic"), TRUE)}
        ELSE {IF o[2] THEN Outcome(o[1], Err("panic"), TRUE) ELSE finish(o[1]) :
                 o \in apply_replacements(
                           recorded(new_font_idxs \o replaced_font_idxs),
                           path, replace_font_datas, debug)}


\* Vec<usize>::sort
RECURSIVE sort(_)
sort(s) ==
    IF s = <<>> THEN <<>>
    ELSE LET m == CHOOSE i \in DOMAIN s : \A j \in DOMAIN s : s[i] <= s[j]
         IN  <<s[m]>> \o sort([i \in 1 .. Len(s) - 1 |->
                                  IF i < m THEN s[i] ELSE s[i + 1]])

\* Vec::dedup: of each run of equal neighbours the first is kept.
dedup(s) ==
    LET Kept(i) == i = 1 \/ s[i] # s[i - 1]
        kept == SelectSeq([i \in DOMAIN s |-> i], Kept)
    IN  [k \in DOMAIN kept |-> s[kept[k]]]

\* FontCache::search_fonts; the value lists the cache indices of the
\* FontRefs, which sort and dedup compare by cache_index.
search_fonts(fds, search_string) ==
    dedup(sort(search_fonts_rounds(fds, split(search_string), 0)))

\* The indices load_font_file returns for a CacheResult.
load_font_file_results(cache_result) ==
    CASE cache_result.kind = "New" ->
             cache_result.newly_cached \o cache_result.replaced \o cache_result.skipped
      [] cache_result.kind = "AlreadyCached" -> cache_result.idxs
      [] cache_result.kind = "NoNewData" -> cache_result.existing_idxs

\* The indices load_multiple_font_files collects for a CacheResult.
load_multiple_font_files_idxs(cache_result) ==
    CASE cache_result.kind = "New" ->
             cache_result.newly_cached \o cache_result.replaced
      [] cache_result.kind = "AlreadyCached" -> cache_result.idxs
      [] cache_result.kind = "NoNewData" -> cache_result.existing_idxs

\* The sequential loop of load_multiple_font_files over the results of the
\* parallel phase; the first Err returns from the function.  cache_results
\* lists what store_raw_data returned for the results consumed.
RECURSIVE commit_all(_, _, _, _, _)
commit_all(st, raw_datas, result_idxs, cache_results, debug) ==
    IF raw_datas = <<>>
    THEN {[st |-> st, panicked |-> FALSE,
           result |-> Ok(Len(dedup(sort(result_idxs)))),
           cache_results |-> cache_results]}
    ELSE UNION {
           IF o.panicked \/ ~o.result.ok
           THEN {[st |-> o.st, panicked |-> o.panicked, result |-> o.result,
                  cache_results |-> Append(cache_results, o.result)]}
           ELSE commit_all(o.st, Tail(raw_datas),
                           result_idxs \o load_multiple_font_files_idxs(o.result.val),
                           Append(cache_results, o.result), debug) :
           o \in store_raw_data(st, Head(raw_datas), debug)}

\* The FontCache fields after a call that left the cache st.
Becomes(st) ==
    /\ paths' = st.paths
    /\ font_file_types' = st.font_file_types
    /\ paths_to_font_idxs' = st.paths_to_font_idxs
    /\ paths_to_data_refs' = st.paths_to_data_refs
    /\ raw_data_hashes_to_paths' = st.raw_data_hashes_to_paths
    /\ font_datas' = st.font_datas
    /\ lazy_font_datas' = st.lazy_font_datas

\* No call is returning.
NoCall == [op |-> "none"]

\* ----------------------------------------------------------- the GlyphCache
\* GlyphCache::new, with the texture of TextRenderer::new not yet written.
GlyphCache_new(texture_row_size, texture_rows) ==
    /\ atlas = EmptyMap
    /\ draw_texture = [i \in 1 .. texture_row_size * texture_rows |-> 0]
    /\ texture = [i \in 1 .. texture_row_size * texture_rows |-> 0]
    /\ texture_data_dirty = FALSE
    /\ glyph_map = EmptyMap
    /\ rasterizer_calls = EmptyMap
    /\ gpu_texture = [i \in 1 .. texture_row_size * texture_rows |-> 0]
    /\ glyph_panicked = FALSE
    /\ glyph_ret = NoCall
    /\ first_bounds = EmptyMap

\* The threads that share the FontCache through FontRefs.
Threads == 1 .. MaxThreads

\* A thread that is in no call on a FontRef.
Idle == [pc |-> "idle"]

\* A Vec the model does not look into further than the elements the last
\* call pushed: len counts all its elements.
Vec_new == [len |-> 0, pushed |-> <<>>]

\* A variant of the append that puts the buffer in front of the others.
arena_alloc_in_front(data, raw_bytes) == <<raw_bytes>> \o data

\* Arena::alloc on the static DATA, under its lock: the buffer is appended.
arena_alloc(data, raw_bytes) == Append(data, raw_bytes)

\* FontCache::raw_data_size: the sum of the lengths of the buffers of the
\* arena.
RECURSIVE raw_data_size(_)
raw_data_size(data) ==
    IF data = <<>> THEN 0
    ELSE FileData[Head(data)].len + raw_data_size(Tail(data))

\* App::new: the GameState starts at state 1 with no frame rendered, its
\* clock at the instant of construction; there is no window before resumed.
\* since_now is Instant::now() minus game_state.now in milliseconds, redraw
\* is whether a request_redraw of the app awaits its RedrawRequested event,
\* exiting whether event_loop.exit() was called.
App_new ==
    [window |-> FALSE, state_number |-> 1, frame_number |-> 0, since_now |-> 0,
     text_len |-> 24, should_quit |-> FALSE, redraw |-> FALSE, exiting |-> FALSE]

\* FontCache::new, in a build with or without debug assertions.
Init ==
    /\ paths = <<>>
    /\ font_file_types = <<>>
    /\ paths_to_font_idxs = EmptyMap
    /\ paths_to_data_refs = EmptyMap
    /\ raw_data_hashes_to_paths = EmptyMap
    /\ font_datas = <<>>
    /\ lazy_font_datas = <<>>
    /\ DATA = <<>>
    /\ debug_assertions \in BOOLEAN
    /\ panicked = FALSE
    /\ ret = NoCall
    /\ first_results = EmptyMap
    /\ par = NoCall
    /\ GlyphCache_new(TextureRowSize, TextureRows)
    /\ threads = [t \in Threads |-> Idle]
    /\ vertices = Vec_new
    /\ indices = Vec_new
    /\ shaper = None
    /\ app = App_new

\* FontCache::load_font_file(path), the path holding file.
LoadFontFile(path, file) ==
    /\ ~panicked
    /\ ret = NoCall
    /\ LET loaded == load_raw_data(path, file, raw_data_hashes_to_paths, Len(DATA))
       IN  /\ loaded.alloc => Len(DATA) < MaxArena
           /\ DATA' = IF loaded.alloc THEN arena_alloc(DATA, file) ELSE DATA
           /\ \E o \in store_raw_data(Cache, loaded.result, debug_assertions) :
                /\ Becomes(o.st)
                /\ panicked' = o.panicked
                /\ ret' = [op |-> "load_font_file",
                           args |-> << <<path, file>> >>,
                           result |-> IF o.result.ok
                                      THEN Ok(load_font_file_results(o.result.val))
                                      ELSE o.result,
                           cache_results |-> <<o.result>>]
                /\ first_results' =
                       IF o.result.ok /\ raw_data_hash_of(file) \notin DOMAIN first_results
                       THEN Insert(first_results, raw_data_hash_of(file),
                                   load_font_file_results(o.result.val))
                       ELSE first_results
    /\ UNCHANGED <<debug_assertions, par, glyph_vars, draw_vars>>

\* The arguments of load_multiple_font_files: up to MaxBatch paths, each with
\* the file it holds during the call.
Batches ==
    {b \in UNION {[1 .. n -> Files] : n \in 0 .. MaxBatch} :
        \A i, j \in DOMAIN b : b[i][1] = b[j][1] => b[i][2] = b[j][2]}

\* The positions of batch whose load_raw_data appends to the arena.
allocating(batch) ==
    {i \in DOMAIN batch :
        load_raw_data(batch[i][1], batch[i][2], raw_data_hashes_to_paths, 0).alloc}

\* The orders in which the loads of a set of positions can append to the arena.
alloc_orders(positions) ==
    {s \in [1 .. Cardinality(positions) -> positions] :
        \A i, j \in DOMAIN s : s[i] = s[j] => i = j}

\* FontCache::load_multiple_font_files(paths).  The parallel phase runs
\* load_raw_data on every path against the hash table as it is before the
\* call; order is the order in which the parallel loads append to the arena.
LoadMultipleFontFiles(batch, order) ==
    /\ ~panicked
    /\ ret = NoCall
    /\ Len(DATA) + Len(order) <= MaxArena
    /\ LET slot == [i \in Range(order) |->
                       Len(DATA) + (CHOOSE k \in DOMAIN order : order[k] = i) - 1]
           raw_datas == [i \in DOMAIN batch |->
                            load_raw_data(batch[i][1], batch[i][2],
                                          raw_data_hashes_to_paths,
                                          IF i \in DOMAIN slot THEN slot[i] ELSE 0).result]
       IN  /\ DATA' = DATA \o [k \in DOMAIN order |-> batch[order[k]][2]]
           /\ \E o \in commit_all(Cache, raw_datas, <<>>, <<>>, debug_assertions) :
                /\ Becomes(o.st)
                /\ panicked' = o.panicked
                /\ ret' = [op |-> "load_multiple_font_files",
                           args |-> batch,
                           result |-> o.result,
                           cache_results |-> o.cache_results]
    /\ UNCHANGED <<debug_assertions, first_results, par, glyph_vars, draw_vars>>

\* The caller takes the returned value; the cache is ready for the next call.
Return ==
    /\ ~panicked
    /\ ret # NoCall
    /\ ret' = NoCall
    /\ UNCHANGED <<paths, font_file_types, paths_to_font_idxs, paths_to_data_refs,
                   raw_data_hashes_to_paths, font_datas, lazy_font_datas, DATA,
                   debug_assertions, panicked, first_results, par, glyph_vars, draw_vars>>

\* A call is made only when no call is returning or running and nothing has
\* panicked.
Callable == ~panicked /\ ret = NoCall /\ par = NoCall

Next ==
    \/ Callable /\ \E f \in Files : LoadFontFile(f[1], f[2])
    \/ Callable /\ \E batch \in Batches :
                      \E order \in alloc_orders(allocating(batch)) :
                         LoadMultipleFontFiles(batch, order)
    \/ Return

Spec == Init /\ [][Next]_vars


\* ------------------------------------- load_multiple_font_files, step by step
\* load_multiple_font_files(paths) enters its parallel phase: no path has
\* been loaded yet.
StartLoadMultipleFontFiles(batch) ==
    /\ Len(DATA) + Cardinality(allocating(batch)) <= MaxArena
    /\ par' = [op |-> "load_multiple_font_files",
               batch |-> batch,
               finished |-> <<>>,
               raw_datas |-> EmptyMap]
    /\ UNCHANGED <<paths, font_file_types, paths_to_font_idxs, paths_to_data_refs,
                   raw_data_hashes_to_paths, font_datas, lazy_font_datas, DATA,
                   debug_assertions, panicked, ret, first_results, glyph_vars, draw_vars>>

\* A variant of the parallel load that commits its result at once.
ParLoadAndStoreRawData(i) ==
    /\ par # NoCall
    /\ i \in DOMAIN par.batch \ DOMAIN par.raw_datas
    /\ LET loaded == load_raw_data(par.batch[i][1], par.batch[i][2],
                                   raw_data_hashes_to_paths, Len(DATA))
       IN  /\ DATA' = IF loaded.alloc THEN arena_alloc(DATA, par.batch[i][2]) ELSE DATA
           /\ par' = [par EXCEPT !.finished = Append(@, i),
                                 !.raw_datas = Insert(@, i, loaded.result)]
           /\ \E o \in store_raw_data(Cache, loaded.result, debug_assertions) :
                  Becomes(o.st) /\ panicked' = o.panicked
    /\ UNCHANGED <<debug_assertions, ret, first_results, glyph_vars, draw_vars>>

\* One of the parallel load_raw_data calls of the running
\* load_multiple_font_files, for the path at position i.  The hash table it
\* reads is the cache's, which the parallel phase only borrows; the arena slot
\* is the one the buffer gets when the load takes the lock.
ParLoadRawData(i) ==
    /\ par # NoCall
    /\ i \in DOMAIN par.batch \ DOMAIN par.raw_datas
    /\ LET loaded == load_raw_data(par.batch[i][1], par.batch[i][2],
                                   raw_data_hashes_to_paths, Len(DATA))
       IN  /\ DATA' = IF loaded.alloc THEN arena_alloc(DATA, par.batch[i][2]) ELSE DATA
           /\ par' = [par EXCEPT !.finished = Append(@, i),
                                 !.raw_datas = Insert(@, i, loaded.result)]
    /\ UNCHANGED <<paths, font_file_types, paths_to_font_idxs, paths_to_data_refs,
                   raw_data_hashes_to_paths, font_datas, lazy_font_datas,
                   debug_assertions, panicked, ret, first_results, glyph_vars, draw_vars>>

\* A variant that hands the results on in the order the loads finished.
collect_as_finished(n, finished) == finished

\* The order in which collect() hands the results of the parallel loads to
\* the sequential loop: the order of the paths in the argument.
collect(n, finished) == [i \in 1 .. n |-> i]

\* The sequential phase of the running load_multiple_font_files, once every
\* parallel load has finished.
CommitLoadMultipleFontFiles ==
    /\ par # NoCall
    /\ DOMAIN par.raw_datas = DOMAIN par.batch
    /\ LET order == collect(Len(par.batch), par.finished)
           raw_datas == [k \in DOMAIN order |-> par.raw_datas[order[k]]]
       IN  \E o \in commit_all(Cache, raw_datas, <<>>, <<>>, debug_assertions) :
                /\ Becomes(o.st)
                /\ panicked' = o.panicked
                /\ ret' = [op |-> "load_multiple_font_files",
                           args |-> par.batch,
                           result |-> o.result,
                           cache_results |-> o.cache_results]
    /\ par' = NoCall
    /\ UNCHANGED <<DATA, debug_assertions, first_results, glyph_vars, draw_vars>>

NextPar ==
    \/ Callable /\ \E f \in Files : LoadFontFile(f[1], f[2])
    \/ Callable /\ \E batch \in Batches : StartLoadMultipleFontFiles(batch)
    \/ \E i \in 1 .. MaxBatch : ParLoadRawData(i)
    \/ CommitLoadMultipleFontFiles
    \/ Return

SpecPar == Init /\ [][NextPar]_vars


\* ------------------------------------------------------------ the lookups
\* The files the lookups find loaded.
FindFiles ==
    {<<"a_ttf", "Accent">>, <<"a_ttf", "Dup">>, <<"a_ttf", "NoSub">>,
     <<"a_ttf", "Phrase">>, <<"c_TTC", "Coll">>, <<"c_TTC", "NoSub">>}

bold == <<"b","o","l","d">>
regular == <<"r","e","g","u","l","a","r">>
ete == <<"e'","t","e'">>

\* The names find_font is asked for.
FamilyNames == {Arial, arial, Ete, ete, Heavy}
SubfamilyNames == {None, Some(Regular), Some(Bold), Some(bold)}

\* The strings search_fonts is asked for.
SearchStrings ==
    {<<>>, arial, bold, Ete, ete, <<"r","i">>,
     Arial \o <<" ">> \o Bold,
     bold \o <<" ">> \o arial,
     Arial \o <<" ", " ">> \o Bold,
     <<"i","a","l"," ","r","e","g">>,
     Arial \o <<" ">>,
     arial \o <<" ">> \o regular,
     regular \o <<" ">> \o arial}

\* FontCache::find_font(family_name, subfamily_name)
FindFont(family_name, subfamily_name) ==
    /\ ~panicked
    /\ ret = NoCall
    /\ ret' = [op |-> "find_font",
               args |-> <<family_name, subfamily_name>>,
               result |-> find_font(font_datas, family_name, subfamily_name)]
    /\ UNCHANGED <<paths, font_file_types, paths_to_font_idxs, paths_to_data_refs,
                   raw_data_hashes_to_paths, font_datas, lazy_font_datas, DATA,
                   debug_assertions, panicked, first_results, par, glyph_vars, draw_vars>>

\* FontCache::search_fonts(search_string)
SearchFonts(search_string) ==
    /\ ~panicked
    /\ ret = NoCall
    /\ ret' = [op |-> "search_fonts",
               args |-> <<search_string>>,
               result |-> search_fonts(font_datas, search_string)]
    /\ UNCHANGED <<paths, font_file_types, paths_to_font_idxs, paths_to_data_refs,
                   raw_data_hashes_to_paths, font_datas, lazy_font_datas, DATA,
                   debug_assertions, panicked, first_results, par, glyph_vars, draw_vars>>

NextFind ==
    \/ Callable /\ \E f \in FindFiles : LoadFontFile(f[1], f[2])
    \/ Callable /\ \E family_name \in FamilyNames, subfamily_name \in SubfamilyNames :
                      FindFont(family_name, subfamily_name)
    \/ Callable /\ \E search_string \in SearchStrings : SearchFonts(search_string)
    \/ Return

SpecFind == Init /\ [][NextFind]_vars


\* ----------------------------------------------------- the lazy font data
\* The OnceLock fields of LazyFontCacheData.
LazyFields == {"ext_font_ref", "shaper_data", "outline_glyphs_ref"}

\* A thread in a call: idx is the cache index of its FontRef, frames the
\* get_or_init calls it is in, the innermost last.  A frame is at "get"
\* when get_or_init has been called and at "run" when the thread runs the
\* closure; arg is what the ext_font_ref call inside the closure returned.
Frame(field) == [field |-> field, at |-> "get", arg |-> None]
InCall(idx, frames) == [pc |-> "in_call", idx |-> idx, frames |-> frames]
Returned(idx, field, value) ==
    [pc |-> "returned", idx |-> idx, field |-> field, value |-> value]

\* A variant of the OnceLock that lets every caller run its closure.
once_is_running_never(idx, field) == FALSE

\* The Once of the OnceLock field of entry idx is running: a thread is in
\* its closure, and get_or_init of every other thread waits.
once_is_running(idx, field) ==
    \E t \in Threads :
       /\ threads[t].pc = "in_call"
       /\ threads[t].idx = idx
       /\ \E k \in DOMAIN threads[t].frames :
             threads[t].frames[k].field = field /\ threads[t].frames[k].at = "run"

\* The Box a closure builds, named after the thread that allocates it:
\* ExtFontRef::from_index of the bytes and font index of the entry, which
\* load_raw_data has parsed before, ShaperData::new of the face, and
\* outline_glyphs() of the face.
BoxNew(t, field, fd, arg) ==
    IF field = "ext_font_ref"
    THEN [box |-> t, data |-> fd.raw_data_ref, index |-> fd.font_ref_idx]
    ELSE [box |-> t, of |-> Unwrap(arg)]

\* A thread calls ext_font_ref(), shaper_data() or
\* outline_glyph_collection() on the FontRef of cache index idx.
CallLazy(t, field, idx) ==
    /\ ~panicked
    /\ ret = NoCall
    /\ threads[t].pc = "idle"
    /\ idx \in 0 .. Len(font_datas) - 1
    /\ threads' = [threads EXCEPT ![t] = InCall(idx, <<Frame(field)>>)]
    /\ UNCHANGED <<paths, font_file_types, paths_to_font_idxs, paths_to_data_refs,
                   raw_data_hashes_to_paths, font_datas, lazy_font_datas, DATA,
                   debug_assertions, panicked, ret, first_results, par, glyph_vars,
                   vertices, indices, shaper, app>>

\* The innermost get_or_init of thread t returns value: to the closure that
\* called it, or to the caller of the thread.
Deliver(th, value) ==
    LET n == Len(th.frames)
    IN  IF n = 1 THEN Returned(th.idx, th.frames[1].field, value)
        ELSE InCall(th.idx,
                    [SubSeq(th.frames, 1, n - 1) EXCEPT ![n - 1].arg = Some(value)])

\* OnceLock::get_or_init of the innermost frame of thread t: the value when
\* the cell is set; else the thread starts the closure, unless another
\* thread runs it, in which case it waits.
GetOrInit(t) ==
    /\ threads[t].pc = "in_call"
    /\ LET th == threads[t]
           n == Len(th.frames)
           field == th.frames[n].field
           cell == At(lazy_font_datas, th.idx)[field]
       IN  /\ th.frames[n].at = "get"
           /\ IF IsSome(cell)
              THEN threads' = [threads EXCEPT ![t] = Deliver(th, Unwrap(cell))]
              ELSE /\ ~once_is_running(th.idx, field)
                   /\ threads' = [threads EXCEPT ![t].frames[n].at = "run"]
    /\ UNCHANGED <<paths, font_file_types, paths_to_font_idxs, paths_to_data_refs,
                   raw_data_hashes_to_paths, font_datas, lazy_font_datas, DATA,
                   debug_assertions, panicked, ret, first_results, par, glyph_vars,
                   vertices, indices, shaper, app>>

\* The closure of the innermost frame of thread t: shaper_data and
\* outline_glyph_collection first call ext_font_ref; then the Box is built
\* and the OnceLock set.
RunClosure(t) ==
    /\ threads[t].pc = "in_call"
    /\ LET th == threads[t]
           n == Len(th.frames)
           frame == th.frames[n]
           value == BoxNew(t, frame.field, At(font_datas, th.idx), frame.arg)
       IN  /\ frame.at = "run"
           /\ IF frame.field # "ext_font_ref" /\ ~IsSome(frame.arg)
              THEN /\ threads' = [threads EXCEPT ![t].frames =
                                      Append(th.frames, Frame("ext_font_ref"))]
                   /\ UNCHANGED lazy_font_datas
              ELSE /\ lazy_font_datas' =
                          [lazy_font_datas EXCEPT ![th.idx + 1][frame.field] = Some(value)]
                   /\ threads' = [threads EXCEPT ![t] = Deliver(th, value)]
    /\ UNCHANGED <<paths, font_file_types, paths_to_font_idxs, paths_to_data_refs,
                   raw_data_hashes_to_paths, font_datas, DATA,
                   debug_assertions, panicked, ret, first_results, par, glyph_vars,
                   vertices, indices, shaper, app>>

\* The thread is done with the reference it got and with its FontRef.
DropFontRef(t) ==
    /\ threads[t].pc = "returned"
    /\ threads' = [threads EXCEPT ![t] = Idle]
    /\ UNCHANGED <<paths, font_file_types, paths_to_font_idxs, paths_to_data_refs,
                   raw_data_hashes_to_paths, font_datas, lazy_font_datas, DATA,
                   debug_assertions, panicked, ret, first_results, par, glyph_vars,
                   vertices, indices, shaper, app>>

\* The files loaded while FontRefs are in use; the face of B replaces the
\* face of A.
LazyFiles == {<<"a_ttf", "A">>, <<"c_TTC", "B">>, <<"c_TTC", "Coll">>}

\* A load takes the cache by &mut: no FontRef is alive.
NoFontRef == \A t \in Threads : threads[t].pc = "idle"

NextLazy ==
    \/ Callable /\ NoFontRef /\ \E f \in LazyFiles : LoadFontFile(f[1], f[2])
    \/ Return
    \/ \E t \in Threads, field \in LazyFields, idx \in 0 .. 2 : CallLazy(t, field, idx)
    \/ \E t \in Threads : GetOrInit(t)
    \/ \E t \in Threads : RunClosure(t)
    \/ \E t \in Threads : DropFontRef(t)

SpecLazy == Init /\ [][NextLazy]_vars


\* ------------------------------------------------ the glyph cache at work
\* The glyphs of the fonts of the model, by glyph id: the pixel width and
\* height of the outline at 24 ppem.  Glyph 3 has an empty outline; any
\* other id is not in the font.
GlyphShapes ==
    (1 :> [width |-> 1, height |-> 2] @@
     2 :> [width |-> 2, height |-> 1] @@
     3 :> [width |-> 0, height |-> 0])

\* The arguments of get_glyph_texture_bounds in the model.  A Size is the
\* Option its ppem() gives, in tenths of a pixel: Size::unscaled() is None.
GlyphIds == {1, 2, 3, 9}
Sizes == {None, Some(240), Some(245), Some(480), Some(960)}
Locations == {"default", "wght700"}

\* f32::round of a ppem, as u32: the nearest integer, halves away from zero.
round_as_u32(ppem_tenths) == (ppem_tenths + 5) \div 10

\* f32::floor of a ppem, as u32.
floor_as_u32(ppem_tenths) == ppem_tenths \div 10

\* The outlines differ from face to face: what the face font_ref_idx of the
\* file bytes puts into the third channel of every pixel it covers.
FaceInk(bytes, font_ref_idx) ==
    (FileData[bytes].len * 30 + font_ref_idx * 100) % 210

\* Rasterizer::render_mask: the placement and the bytes zeno puts at the
\* start of the buffer, four to a pixel (Format::Subpixel) with a pitch of
\* four times the width; None when the font has no such glyph (get(glyph_id)
\* is None and unwrap panics).  The coverage depends on the face, the exact
\* size and the coordinates; the glyphs of the model grow in width only.
\* The outline is that of the face the FontRef of cache_index refers to:
\* outline_glyph_collection reads the bytes and the index of the entry.
render_mask(cache_index, glyph_id, size, coords) ==
    IF glyph_id \notin DOMAIN GlyphShapes THEN None
    ELSE LET width == GlyphShapes[glyph_id].width * (Unwrap(size) \div 240)
             height == GlyphShapes[glyph_id].height
             r == IF Unwrap(size) % 10 = 0 THEN 200 ELSE 100
             g == IF coords = "default" THEN 100 ELSE 200
             fd == At(font_datas, cache_index)
             b == FaceInk(DATA[fd.raw_data_ref + 1], fd.font_ref_idx)
         IN  Some([placement |-> [left |-> 0, top |-> height,
                                  width |-> width, height |-> height],
                   mask |-> [i \in 1 .. width * height * 4 |->
                                CASE (i - 1) % 4 = 0 -> r
                                  [] (i - 1) % 4 = 1 -> g
                                  [] (i - 1) % 4 = 2 -> b
                                  [] OTHER -> 0]])

\* etagere's Box2D: min inclusive, max exclusive.
Rectangle(min_x, min_y, width, height) ==
    [min_x |-> min_x, min_y |-> min_y, max_x |-> min_x + width, max_y |-> min_y + height]

Overlap(a, b) ==
    /\ a.min_x < b.max_x /\ b.min_x < a.max_x
    /\ a.min_y < b.max_y /\ b.min_y < a.max_y

\* A variant that hands out the id 0 every time.
AllocId_always_zero(allocs) == 0

\* The AllocId of the next allocation: one no live allocation has.
AllocId(allocs) == Cardinality(DOMAIN allocs)

\* AtlasAllocator::allocate(size2(width, height)) on an atlas of
\* texture_row_size by texture_rows holding the allocations allocs: None for
\* an empty size and when the allocator finds no room (which, with
\* allocations in the atlas, it may also fail to find when there is some);
\* otherwise a fresh id and a rectangle of at least the size (the allocator
\* rounds sizes up) inside the atlas that overlaps no allocation.
allocate(allocs, width, height) ==
    LET free == {rect \in UNION {{Rectangle(x, y, w, h) :
                                      x \in 0 .. TextureRowSize - w,
                                      y \in 0 .. TextureRows - h} :
                                  w \in width .. TextureRowSize,
                                  h \in height .. TextureRows} :
                    \A id \in DOMAIN allocs : ~Overlap(rect, allocs[id])}
    IN  IF width <= 0 \/ height <= 0 THEN {None}
        ELSE (IF free = {} \/ DOMAIN allocs # {} THEN {None} ELSE {})
             \cup {Some([id |-> AllocId(allocs), rectangle |-> rect]) :
                      rect \in free}

\* result_uv_bounds of get_glyph_texture_bounds.  The x coordinates are in
\* quarters, so that alloc_box.min.x * 0.25 is exact.
result_uv_bounds(alloc_box, raster_placement) ==
    [min_x4 |-> alloc_box.min_x,
     min_y |-> alloc_box.min_y,
     max_x4 |-> alloc_box.min_x + 4 * raster_placement.width,
     max_y |-> alloc_box.min_y + raster_placement.height]

\* u8::wrapping_add
wrapping_add(a, b) == (a + b) % 256

\* u8::saturating_add
saturating_add(a, b) == IF a + b > 255 THEN 255 ELSE a + b

\* A variant of the blit that starts one row further down.
blit_one_row_down(tex, draw, rectangle, placement) ==
    LET start == (rectangle.min_y + 1) * TextureRowSize + rectangle.min_x
        Written == {start + row * TextureRowSize + value * 4 + c :
                       row \in 0 .. placement.height - 1,
                       value \in 0 .. placement.width - 1, c \in 0 .. 3}
    IN  [i \in DOMAIN tex |-> IF i - 1 \in Written THEN 255 ELSE tex[i]]

\* The loops of get_glyph_texture_bounds that copy the mask from the scratch
\* buffer draw into the atlas bytes tex at the allocated rectangle.
blit(tex, draw, rectangle, placement) ==
    LET start == rectangle.min_y * TextureRowSize + rectangle.min_x
        width == placement.width
        Source(i) ==
            \* the pixel (row, value) and the channel that byte i of tex takes
            LET off == i - start
                row == off \div TextureRowSize
                value == (off % TextureRowSize) \div 4
                c == (off % TextureRowSize) % 4
            IN  [inside |-> off >= 0 /\ row < placement.height /\ value < width,
                 row |-> row, value |-> value, c |-> c]
        Channel(row, value, c) == draw[(row * width * 4) + value * 4 + c + 1]
    IN  [i \in DOMAIN tex |->
            LET src == Source(i - 1)
            IN  IF ~src.inside THEN tex[i]
                ELSE IF src.c < 3 THEN Channel(src.row, src.value, src.c)
                ELSE saturating_add(
                         saturating_add(Channel(src.row, src.value, 0),
                                        Channel(src.row, src.value, 1)),
                         Channel(src.row, src.value, 2))]

\* A variant of the insertion that forgets the glyph.
glyph_map_insert_nothing(m, key, v) == m

\* self.glyph_map.insert(key, (allocation.id, placement))
glyph_map_insert(m, key, v) == Insert(m, key, v)

GlyphCacheKey(font_cache_index, glyph_id, ppem, coords) ==
    [font_cache_index |-> font_cache_index, glyph_id |-> glyph_id,
     ppem |-> ppem, coords |-> coords]

\* What a call of get_glyph_texture_bounds leaves in glyph_ret: cached tells
\* that it returned from the lookup of glyph_map, and value is None when the
\* call panicked.
GlyphReturn(font, glyph_id, size, coords, cached, value) ==
    [op |-> "get_glyph_texture_bounds",
     args |-> [font |-> font, glyph_id |-> glyph_id, size |-> size, coords |-> coords],
     cached |-> cached,
     value |-> value]

\* A variant of the panic that marks the atlas changed first.
PanicsAfterMarkingDirty(font, glyph_id, size, coords) ==
    /\ glyph_panicked' = TRUE
    /\ glyph_ret' = GlyphReturn(font, glyph_id, size, coords, FALSE, None)
    /\ texture_data_dirty' = TRUE
    /\ UNCHANGED <<atlas, texture, glyph_map, gpu_texture, first_bounds>>

\* A panic in get_glyph_texture_bounds: the call returns nothing, and
\* nothing after the panicking expression runs.
Panics(font, glyph_id, size, coords) ==
    /\ glyph_panicked' = TRUE
    /\ glyph_ret' = GlyphReturn(font, glyph_id, size, coords, FALSE, None)
    /\ UNCHANGED <<atlas, texture, texture_data_dirty, glyph_map, gpu_texture,
                   first_bounds>>

Returns(font, glyph_id, size, coords, key, cached, value) ==
    /\ glyph_panicked' = FALSE
    /\ glyph_ret' = GlyphReturn(font, glyph_id, size, coords, cached, Some(value))
    /\ first_bounds' = IF key \in DOMAIN first_bounds THEN first_bounds
                       ELSE Insert(first_bounds, key, value)

Zeroed(buffer) == [i \in DOMAIN buffer |-> 0]

\* The render_mask call counted for key.
Rendered(key) ==
    Insert(rasterizer_calls, key,
           IF key \in DOMAIN rasterizer_calls THEN rasterizer_calls[key] + 1 ELSE 1)

\* A variant of the insertion that leaves the flag as it found it.
insert_keeps_flag(dirty) == dirty

\* self.texture_data_dirty = true, after the glyph is in the atlas.
flag_after_insert(dirty) == TRUE

\* GlyphCache::get_glyph_texture_bounds(font, glyph_id, size, coords), font
\* being the FontRef of the cache index font.
GetGlyphTextureBounds(font, glyph_id, size, coords) ==
    /\ ~glyph_panicked
    /\ font \in 0 .. Len(font_datas) - 1
    /\ IF ~IsSome(size)
       THEN \* size.ppem().unwrap()
            /\ Panics(font, glyph_id, size, coords)
            /\ UNCHANGED <<draw_texture, rasterizer_calls>>
       ELSE
       LET rounded_size == floor_as_u32(Unwrap(size))
           key == GlyphCacheKey(font, glyph_id, rounded_size, coords)
       IN  IF key \in DOMAIN glyph_map
           THEN LET alloc_id == glyph_map[key][1]
                    placement == glyph_map[key][2]
                IN  /\ Returns(font, glyph_id, size, coords, key, TRUE,
                               <<placement, result_uv_bounds(atlas[alloc_id], placement)>>)
                    /\ UNCHANGED <<atlas, draw_texture, texture, texture_data_dirty,
                                   glyph_map, rasterizer_calls, gpu_texture>>
           ELSE
           LET rendered == render_mask(font, glyph_id, size, coords) IN
           /\ rasterizer_calls' = Rendered(key)
           /\ IF ~IsSome(rendered)
              THEN \* get(glyph_id).unwrap() in render_mask
                   /\ draw_texture' = Zeroed(draw_texture)
                   /\ Panics(font, glyph_id, size, coords)
              ELSE
              LET placement == Unwrap(rendered).placement
                  mask == Unwrap(rendered).mask
              IN  IF Len(mask) > Len(draw_texture)
                  THEN \* the mask does not fit the buffer: render_into panics at
                       \* some byte, or clips and the allocation below fails
                       /\ \E n \in 0 .. Len(draw_texture) :
                             draw_texture' = [i \in DOMAIN draw_texture |->
                                                 IF i <= n THEN mask[i] ELSE 0]
                       /\ Panics(font, glyph_id, size, coords)
                  ELSE
                  /\ draw_texture' = [i \in DOMAIN draw_texture |->
                                         IF i <= Len(mask) THEN mask[i] ELSE 0]
                  /\ \E allocation \in allocate(atlas, placement.width * 4,
                                                 placement.height) :
                        IF ~IsSome(allocation)
                        THEN \* allocate(..).unwrap()
                             Panics(font, glyph_id, size, coords)
                        ELSE
                        LET a == Unwrap(allocation)
                            uv_bounds == result_uv_bounds(a.rectangle, placement)
                        IN  /\ atlas' = Insert(atlas, a.id, a.rectangle)
                            /\ texture' = blit(texture, draw_texture', a.rectangle,
                                               placement)
                            /\ glyph_map' = glyph_map_insert(glyph_map, key,
                                                             <<a.id, placement>>)
                            /\ texture_data_dirty' = flag_after_insert(texture_data_dirty)
                            /\ gpu_texture' = gpu_texture
                            /\ Returns(font, glyph_id, size, coords, key, FALSE,
                                       <<placement, uv_bounds>>)
    /\ UNCHANGED <<paths, font_file_types, paths_to_font_idxs, paths_to_data_refs,
                   raw_data_hashes_to_paths, font_datas, lazy_font_datas, DATA,
                   debug_assertions, panicked, ret, first_results, par, draw_vars>>

\* A variant of the upload that leaves the flag as it found it.
write_texture_keeps_flag(dirty) == dirty

\* The flag after the branch of queue_write_texture_if_changed.
flag_after_write(dirty) == FALSE

\* TextRenderer::queue_write_texture_if_changed: queue.write_texture copies
\* the whole of glyph_cache.texture to the texture of the device.
QueueWriteTextureIfChanged ==
    /\ ~glyph_panicked
    /\ IF texture_data_dirty
       THEN /\ gpu_texture' = texture
            /\ texture_data_dirty' = flag_after_write(texture_data_dirty)
       ELSE UNCHANGED <<gpu_texture, texture_data_dirty>>
    /\ glyph_ret' = [op |-> "queue_write_texture_if_changed",
                     wrote |-> texture_data_dirty]
    /\ UNCHANGED <<atlas, draw_texture, texture, glyph_map, rasterizer_calls,
                   glyph_panicked, first_bounds>>
    /\ UNCHANGED <<paths, font_file_types, paths_to_font_idxs, paths_to_data_refs,
                   raw_data_hashes_to_paths, font_datas, lazy_font_datas, DATA,
                   debug_assertions, panicked, ret, first_results, par, draw_vars>>

\* The program loads a font file holding two faces before anything is drawn.
LoadFonts == font_datas = <<>> /\ LoadFontFile("c_TTC", "Coll")

NextGlyph ==
    \/ Callable /\ LoadFonts
    \/ Return
    \/ Callable /\ \E font \in 0 .. 1, glyph_id \in GlyphIds, size \in Sizes,
                     coords \in Locations :
                      GetGlyphTextureBounds(font, glyph_id, size, coords)
    \/ Callable /\ QueueWriteTextureIfChanged

SpecGlyph == Init /\ [][NextGlyph]_vars


\* -------------------------------------------------- the geometry of a glyph
\* u16::MAX
U16_MAX == 65535

\* v as u16 of a usize v
as_u16(v) == v % (U16_MAX + 1)

\* A Vec that holds len elements, the last of them the elements of pushed:
\* the model keeps the elements pushed since the caller handed it the Vec.
Vec_holding(len) == [len |-> len, pushed |-> <<>>]

\* Vec::push
push(vec, element) == [len |-> vec.len + 1, pushed |-> Append(vec.pushed, element)]

RECURSIVE push_all(_, _)
push_all(vec, elements) ==
    IF elements = <<>> THEN vec
    ELSE push_all(push(vec, Head(elements)), Tail(elements))

\* From<&Box2D<f32>> for RenderGlyphData: the pixel box has the size of the
\* bounds cast to i32 and starts at the origin.
RenderGlyphData_from(value) ==
    [px_bounds |-> [min_x |-> 0, min_y |-> 0,
                    max_x |-> (value.max_x4 \div 4) - (value.min_x4 \div 4),
                    max_y |-> value.max_y - value.min_y],
     uv_bounds |-> value]

GlyphVertex(caret_x, caret_y, offset_x, offset_y, tex_x4, tex_y) ==
    [caret_position |-> <<caret_x, caret_y, 0>>,
     px_bounds_offset |-> <<offset_x, offset_y>>,
     tex_coords |-> <<tex_x4, tex_y>>]

\* RenderGlyphData::to_indexed_vertices
to_indexed_vertices(glyph, caret_x, caret_y) ==
    LET left == glyph.px_bounds.min_x
        right == glyph.px_bounds.max_x
        top == glyph.px_bounds.max_y
        bottom == glyph.px_bounds.min_y
        uv == glyph.uv_bounds
    IN  <<  <<GlyphVertex(caret_x, caret_y, left, top, uv.min_x4, uv.min_y),
              GlyphVertex(caret_x, caret_y, left, bottom, uv.min_x4, uv.max_y),
              GlyphVertex(caret_x, caret_y, right, bottom, uv.max_x4, uv.max_y),
              GlyphVertex(caret_x, caret_y, right, top, uv.max_x4, uv.min_y)>>,
            <<0, 1, 2, 2, 3, 0>>  >>

\* A variant of the offset that is the number of indices, not of vertices.
previous_len_of_indices(vertices_len, indices_len) == as_u16(indices_len)

\* let previous_vertices_len = vertices.len() as u16
previous_vertices_len(vertices_len, indices_len) == as_u16(vertices_len)

\* The second loop of prepare_draw_for_glyph from the k-th index on: the
\* Vec it leaves, and whether the u16 addition overflowed, which panics in
\* a build that checks overflow and wraps in one that does not.
RECURSIVE push_indices(_, _, _, _, _)
push_indices(vec, glyph_indices, k, previous, overflow_checks) ==
    IF k > Len(glyph_indices) THEN [vec |-> vec, panicked |-> FALSE]
    ELSE LET sum == glyph_indices[k] + previous
         IN  IF sum > U16_MAX /\ overflow_checks
             THEN [vec |-> vec, panicked |-> TRUE]
             ELSE push_indices(push(vec, as_u16(sum)), glyph_indices, k + 1,
                               previous, overflow_checks)

\* GlyphCache::prepare_draw_for_glyph(vertices, indices, glyph, caret_x,
\* caret_y).  The profiles of the repository check overflow exactly when
\* they check debug_assert!.
PrepareDrawForGlyph(glyph, caret_x, caret_y) ==
    /\ ~glyph_panicked
    /\ Len(vertices.pushed) < 4 * MaxPrepared
    /\ LET glyph_vertices == to_indexed_vertices(glyph, caret_x, caret_y)[1]
           glyph_indices == to_indexed_vertices(glyph, caret_x, caret_y)[2]
           previous == previous_vertices_len(vertices.len, indices.len)
           pushed == push_indices(indices, glyph_indices, 1, previous,
                                  debug_assertions)
       IN  /\ vertices' = push_all(vertices, glyph_vertices)
           /\ indices' = pushed.vec
           /\ glyph_panicked' = pushed.panicked
           /\ glyph_ret' = [op |-> "prepare_draw_for_glyph",
                            args |-> [glyph |-> glyph, caret_x |-> caret_x,
                                      caret_y |-> caret_y]]
    /\ UNCHANGED <<atlas, draw_texture, texture, texture_data_dirty, glyph_map,
                   rasterizer_calls, gpu_texture, first_bounds, threads,
                   shaper, app>>
    /\ UNCHANGED <<paths, font_file_types, paths_to_font_idxs, paths_to_data_refs,
                   raw_data_hashes_to_paths, font_datas, lazy_font_datas, DATA,
                   debug_assertions, panicked, ret, first_results, par>>

\* The glyphs a caller has prepared into its buffers before the model
\* watches: none, one, and as many as make 65,528, 65,532 and 65,536 vertices.
GlyphsPreparedBefore == {0, 1, 16382, 16383, 16384}

\* The caller hands prepare_draw_for_glyph a pair of buffers into which it
\* has prepared n glyphs: four vertices and six indices each.
TakeBuffers(n) ==
    /\ ~glyph_panicked
    /\ vertices' = Vec_holding(4 * n)
    /\ indices' = Vec_holding(6 * n)
    /\ glyph_ret' = [op |-> "buffers", prepared |-> n]
    /\ UNCHANGED <<atlas, draw_texture, texture, texture_data_dirty, glyph_map,
                   rasterizer_calls, gpu_texture, glyph_panicked, first_bounds,
                   threads, shaper, app>>
    /\ UNCHANGED <<paths, font_file_types, paths_to_font_idxs, paths_to_data_refs,
                   raw_data_hashes_to_paths, font_datas, lazy_font_datas, DATA,
                   debug_assertions, panicked, ret, first_results, par>>

\* The carets of the model, in tenths of the surface.
Carets == {-5, 0}

\* The glyphs the draw calls ask the cache for.
DrawnGlyphIds == {1, 2}

NextDraw ==
    \/ Callable /\ LoadFonts
    \/ Return
    \/ Callable /\ \E glyph_id \in DrawnGlyphIds :
                      GetGlyphTextureBounds(0, glyph_id, Some(240), "default")
    \/ Callable /\ \E n \in GlyphsPreparedBefore : TakeBuffers(n)
    \/ Callable /\ \E key \in DOMAIN first_bounds, caret_x \in Carets :
                      PrepareDrawForGlyph(RenderGlyphData_from(first_bounds[key][2]),
                                          caret_x, 5)

SpecDraw == Init /\ [][NextDraw]_vars


\* ------------------------------------------- glyphs of an entry that changes
\* Two files with a face of the same pair, the second ranking above the
\* first: loaded in this order, the second replaces the entry of the first.
ReplaceFiles == {<<"a_ttf", "A">>, <<"c_TTC", "B">>}

NextReplace ==
    \/ Callable /\ \E f \in ReplaceFiles : LoadFontFile(f[1], f[2])
    \/ Return
    \/ Callable /\ \E glyph_id \in DrawnGlyphIds :
                      GetGlyphTextureBounds(0, glyph_id, Some(240), "default")
    \/ Callable /\ QueueWriteTextureIfChanged

SpecReplace == Init /\ [][NextReplace]_vars


\* ------------------------------------------------------------------ a frame
\* The end of TextRenderer::render: the quad that shows the whole atlas is
\* appended to the geometry, the buffers are written, and draw_indexed is
\* recorded in the render pass, which the caller submits.  The draw samples
\* the texture of the device as the writes queued so far have left it.
DrawIndexed ==
    /\ ~glyph_panicked
    /\ LET old_vertices_len == as_u16(vertices.len)
           quad == <<GlyphVertex(0, 0, 0, 0, 0, 0),
                     GlyphVertex(0, -10, 0, 0, 0, TextureRows),
                     GlyphVertex(5, -10, 0, 0, TextureRowSize, TextureRows),
                     GlyphVertex(5, 0, 0, 0, TextureRowSize, 0)>>
           pushed == push_indices(indices, <<0, 1, 2, 2, 3, 0>>, 1, old_vertices_len,
                                  debug_assertions)
       IN  /\ vertices' = push_all(vertices, quad)
           /\ indices' = pushed.vec
           /\ glyph_panicked' = pushed.panicked
           /\ glyph_ret' = [op |-> "draw_indexed",
                            indices |-> pushed.vec.len,
                            sampled |-> gpu_texture]
    /\ UNCHANGED <<atlas, draw_texture, texture, texture_data_dirty, glyph_map,
                   rasterizer_calls, gpu_texture, first_bounds, threads,
                   shaper, app>>
    /\ UNCHANGED <<paths, font_file_types, paths_to_font_idxs, paths_to_data_refs,
                   raw_data_hashes_to_paths, font_datas, lazy_font_datas, DATA,
                   debug_assertions, panicked, ret, first_results, par>>

\* The place of render in its body, from the call it made last.
RenderAt(ops) == glyph_ret.op \in ops

\* TextRenderer::render, call by call: the upload of the atlas if it
\* changed, the requests for the glyphs, the fresh buffers, the geometry of
\* the glyphs requested, the draw.
NextFrame ==
    \/ Callable /\ LoadFonts
    \/ Return
    \/ /\ Callable /\ font_datas # <<>>
       /\ RenderAt({"none", "draw_indexed"})
       /\ QueueWriteTextureIfChanged
    \/ /\ Callable
       /\ RenderAt({"queue_write_texture_if_changed", "get_glyph_texture_bounds"})
       /\ \E glyph_id \in DrawnGlyphIds :
             GetGlyphTextureBounds(0, glyph_id, Some(240), "default")
    \/ /\ Callable
       /\ RenderAt({"get_glyph_texture_bounds"})
       /\ TakeBuffers(0)
    \/ /\ Callable
       /\ RenderAt({"buffers", "prepare_draw_for_glyph"})
       /\ \E key \in DOMAIN first_bounds, caret_x \in Carets :
             PrepareDrawForGlyph(RenderGlyphData_from(first_bounds[key][2]), caret_x, 5)
    \/ /\ Callable
       /\ RenderAt({"prepare_draw_for_glyph"})
       /\ DrawIndexed

SpecFrame == Init /\ [][NextFrame]_vars


\* --------------------------------------------------------------- FontShaper
\* The face of the shapers has one variation axis, the weight, 400 by
\* default, and the named instances Regular (index 0) and Bold (index 1).
DefaultCoords == <<400>>

\* ShaperInstance::from_variations and ShaperInstance::set_variations: the
\* coordinates of the face under the variations, the last value given for
\* the axis, the default of the axis when none is given.
RECURSIVE from_variations(_)
from_variations(variations) ==
    IF variations = <<>> THEN DefaultCoords
    ELSE LET last == variations[Len(variations)]
         IN  IF last.tag = "wght" THEN <<last.value>>
             ELSE from_variations(SubSeq(variations, 1, Len(variations) - 1))

\* ShaperInstance::from_named_instance and ShaperInstance::set_named_instance:
\* the coordinates of the named instance, the defaults when the face has no
\* instance of that index.
from_named_instance(named_instance_index) ==
    CASE named_instance_index = 0 -> <<400>>
      [] named_instance_index = 1 -> <<700>>
      [] OTHER -> DefaultCoords

\* ShaperInstanceSettings
Variations(variations) == [kind |-> "Variations", variations |-> variations]
NamedInstance(named_instance_index) == [kind |-> "NamedInstance", named_instance_index |-> named_instance_index]

\* The ShaperSettings of the model: ShaperSettings::new, and what
\* _with_variations, _with_named_instance and _with_features make of it.
ShaperSettingsOfTheModel ==
    [instance_settings : {None,
                          Some(Variations(<<>>)),
                          Some(Variations(<<[tag |-> "wght", value |-> 700]>>)),
                          Some(Variations(<<[tag |-> "wdth", value |-> 75]>>)),
                          Some(NamedInstance(1))},
     shape_features : {None, Some(<<>>), Some(<<"liga">>)}]

\* The instance the settings ask for.
instance_of(instance_settings) ==
    IF instance_settings.kind = "Variations"
    THEN from_variations(instance_settings.variations)
    ELSE from_named_instance(instance_settings.named_instance_index)

\* FontShaper::new
FontShaper_new(shaper_settings) ==
    [_shaper_settings |-> shaper_settings,
     shaper_instance |-> IF IsSome(shaper_settings.instance_settings)
                         THEN instance_of(Unwrap(shaper_settings.instance_settings))
                         ELSE from_variations(<<>>),
     features |-> IF IsSome(shaper_settings.shape_features)
                  THEN Unwrap(shaper_settings.shape_features)
                  ELSE <<>>]

\* FontShaper::_with_settings: settings equal to the ones the shaper was
\* created with return the shaper as it is; otherwise the instance is set
\* if the settings have instance settings, the features are replaced if
\* the settings have features, and _shaper_settings stays what it was.
_with_settings(self, settings) ==
    IF settings = self._shaper_settings THEN self
    ELSE [self EXCEPT
            !.shaper_instance = IF IsSome(settings.instance_settings)
                                THEN instance_of(Unwrap(settings.instance_settings))
                                ELSE @,
            !.features = IF IsSome(settings.shape_features)
                         THEN Unwrap(settings.shape_features)
                         ELSE @]

\* FontRef::shaper(settings) of a face of the cache.
Shaper(settings) ==
    /\ font_datas # <<>>
    /\ shaper' = Some(FontShaper_new(settings))
    /\ glyph_ret' = [op |-> "shaper", settings |-> settings]
    /\ UNCHANGED <<atlas, draw_texture, texture, texture_data_dirty, glyph_map,
                   rasterizer_calls, gpu_texture, glyph_panicked, first_bounds,
                   threads, vertices, indices, app>>
    /\ UNCHANGED <<paths, font_file_types, paths_to_font_idxs, paths_to_data_refs,
                   raw_data_hashes_to_paths, font_datas, lazy_font_datas, DATA,
                   debug_assertions, panicked, ret, first_results, par>>

\* shaper = shaper._with_settings(settings)
WithSettings(settings) ==
    /\ IsSome(shaper)
    /\ shaper' = Some(_with_settings(Unwrap(shaper), settings))
    /\ glyph_ret' = [op |-> "_with_settings", settings |-> settings]
    /\ UNCHANGED <<atlas, draw_texture, texture, texture_data_dirty, glyph_map,
                   rasterizer_calls, gpu_texture, glyph_panicked, first_bounds,
                   threads, vertices, indices, app>>
    /\ UNCHANGED <<paths, font_file_types, paths_to_font_idxs, paths_to_data_refs,
                   raw_data_hashes_to_paths, font_datas, lazy_font_datas, DATA,
                   debug_assertions, panicked, ret, first_results, par>>

NextShaper ==
    \/ Callable /\ LoadFonts
    \/ Return
    \/ Callable /\ \E settings \in ShaperSettingsOfTheModel : Shaper(settings)
    \/ Callable /\ \E settings \in ShaperSettingsOfTheModel : WithSettings(settings)

SpecShaper == Init /\ [][NextShaper]_vars


\* ---------------------------------------------------- the loop of main.rs
SIXTEEN_MILLIS == 16

\* The counters are u64; the loop is watched up to MaxStateNumber, far from
\* their width.
Min(a, b) == IF a <= b THEN a ELSE b

\* GameState::should_update(now)
should_update(game_state) ==
    /\ game_state.frame_number = game_state.state_number
    /\ game_state.since_now >= SIXTEEN_MILLIS

\* App::should_render
should_render(a) == a.window /\ a.state_number > a.frame_number

\* GameState::update(now), quit_keys being whether the keyboard holds
\* LControl and Q down.
update(game_state, quit_keys) ==
    [game_state EXCEPT !.since_now = 0,
                       !.state_number = @ + 1,
                       !.should_quit = quit_keys,
                       !.text_len = Min(24, game_state.frame_number \div 2)]

\* The steps of the loop leave the font cache, the glyph cache and their
\* callers as they are.
OnlyTheApp ==
    UNCHANGED <<paths, font_file_types, paths_to_font_idxs, paths_to_data_refs,
                raw_data_hashes_to_paths, font_datas, lazy_font_datas, DATA,
                debug_assertions, panicked, ret, first_results, par, glyph_vars,
                threads, vertices, indices, shaper>>

\* App::resumed
Resumed ==
    /\ ~app.exiting
    /\ app' = IF app.window THEN app ELSE [app EXCEPT !.window = TRUE]
    /\ OnlyTheApp

\* The clock advances between two handlers; beyond SIXTEEN_MILLIS the loop
\* does not tell the instants apart.
TimePasses ==
    /\ ~app.exiting
    /\ app' = [app EXCEPT
                 !.since_now = Min(@ + (SIXTEEN_MILLIS \div 2), SIXTEEN_MILLIS)]
    /\ OnlyTheApp

\* App::new_events(cause)
NewEvents(cause, quit_keys) ==
    /\ ~app.exiting
    /\ app.state_number < MaxStateNumber
    /\ LET updated == IF should_update(app) THEN update(app, quit_keys) ELSE app
       IN  app' = IF cause = "Init" THEN app
                  ELSE IF should_render(updated)
                          THEN [updated EXCEPT !.redraw = TRUE]
                          ELSE updated
    /\ OnlyTheApp

\* App::window_event(event), rendered being what gfx_state.render returns
\* for a RedrawRequested.  The event comes for a request_redraw of the app
\* or from the window system, which redraws a window that it shows,
\* uncovers or resizes; either way the pending request is served.
WindowEvent(event, rendered) ==
    /\ ~app.exiting
    /\ app.frame_number < MaxStateNumber
    /\ app' = IF ~app.window THEN app
              ELSE CASE event = "CloseRequested" -> [app EXCEPT !.exiting = TRUE]
                     [] event = "RedrawRequested" ->
                           [app EXCEPT
                              !.redraw = FALSE,
                              !.frame_number = IF rendered = "Ok" THEN @ + 1 ELSE @,
                              !.exiting = (rendered = "OutOfMemory")]
                     [] OTHER -> app
    /\ OnlyTheApp

\* App::about_to_wait
AboutToWait ==
    /\ ~app.exiting
    /\ app' = IF app.should_quit THEN [app EXCEPT !.exiting = TRUE] ELSE app
    /\ OnlyTheApp

StartCauses == {"Init", "Poll"}
WindowEvents == {"CloseRequested", "Resized", "RedrawRequested"}
RenderResults == {"Ok", "Lost", "OutOfMemory", "Other"}

NextLoop ==
    \/ Resumed
    \/ TimePasses
    \/ \E cause \in StartCauses, quit_keys \in BOOLEAN : NewEvents(cause, quit_keys)
    \/ \E event \in WindowEvents, rendered \in RenderResults : WindowEvent(event, rendered)
    \/ AboutToWait

SpecLoop == Init /\ [][NextLoop]_vars


\* ------------------------------------------------------------------ claims
\* The cache indices, which start at 0.
CacheIdxs == 0 .. Len(font_datas) - 1

\* The paths whose index set holds the cache index i.
PathsLinking(i) ==
    {p \in DOMAIN paths_to_font_idxs : Contains(paths_to_font_idxs[p], i)}

\* A load has completed and left a replacement behind.
ReplacementReturned ==
    /\ ret # NoCall
    /\ ~panicked
    /\ \E k \in DOMAIN ret.cache_results :
          /\ ret.cache_results[k].ok
          /\ ret.cache_results[k].val.kind = "New"
          /\ ret.cache_results[k].val.replaced # <<>>

\* C1: the cache never holds two entries with the same (family, subfamily)
\* pair.
C1_OneEntryPerPair ==
    \A i, j \in CacheIdxs :
        (/\ At(font_datas, i).family_name = At(font_datas, j).family_name
         /\ At(font_datas, i).subfamily_name = At(font_datas, j).subfamily_name)
        => i = j

\* C2: after every completed load each cache index is in the index set of
\* exactly one path, once, and the sizes of the index sets sum to the number
\* of entries.
C2_EachIndexLinkedOnce ==
    ~panicked =>
        /\ \A i \in CacheIdxs : Cardinality(PathsLinking(i)) = 1
        /\ linked_idxs_count(paths_to_font_idxs) = Len(font_datas)

\* C3: the index sets of two distinct paths have no index in common, after
\* any sequence of loads, replacements included.
C3_PathIndexSetsDisjoint ==
    \A p, q \in DOMAIN paths_to_font_idxs :
        p # q => Range(paths_to_font_idxs[p]) \cap Range(paths_to_font_idxs[q]) = {}

\* C3 witness: a replacement has moved an index, and two paths hold indices.
C3_Witness ==
    /\ ReplacementReturned
    /\ \E p, q \in DOMAIN paths_to_font_idxs :
          p # q /\ paths_to_font_idxs[p] # <<>> /\ paths_to_font_idxs[q] # <<>>


\* A load_font_file step that returned a CacheResult.
LoadFontFileReturns ==
    /\ ret = NoCall
    /\ ret' # NoCall
    /\ ret'.op = "load_font_file"
    /\ ~panicked'
    /\ ret'.cache_results[1].ok

\* The fonts load_raw_data parses from a file nothing is known about.
ParsedFonts(file) == load_raw_data("a_ttf", file, EmptyMap, 0).result.val.font_datas

SamePair(a, b) ==
    a.family_name = b.family_name /\ a.subfamily_name = b.subfamily_name

\* The rank of a face: (variation axes, OpenType features, named instances,
\* revision), compared lexicographically.
Rank(fd) == <<Len(fd.variation_axes), Len(fd.features),
              Len(fd.named_instances), fd.revision>>
LexGreater(a, b) ==
    \E k \in DOMAIN a : a[k] > b[k] /\ \A j \in 1 .. k - 1 : a[j] = b[j]

\* The cache entry store_raw_data builds from a parsed font.
IsEntryOf(entry, raw_font) ==
    /\ entry.font_ref_idx = raw_font.font_ref_idx
    /\ SamePair(entry, raw_font)
    /\ Rank(entry) = Rank(raw_font)

\* C4: in the commit step a parsed face with the (family, subfamily) of an
\* existing entry replaces that entry if and only if it ranks strictly higher
\* in the lexicographic order; otherwise it is skipped and the existing entry
\* is kept.
C4_ReplaceIffRanksHigher ==
    [][LoadFontFileReturns /\ ret'.cache_results[1].val.kind # "AlreadyCached" =>
         LET res == ret'.cache_results[1].val
             faces == ParsedFonts(ret'.args[1][2])
             replaced == IF res.kind = "New" THEN res.replaced ELSE <<>>
             skipped == IF res.kind = "New" THEN res.skipped ELSE res.existing_idxs
         IN  \A k \in DOMAIN faces : \A i \in CacheIdxs :
                 SamePair(faces[k], At(font_datas, i)) =>
                     IF LexGreater(Rank(faces[k]), Rank(At(font_datas, i)))
                     THEN /\ Contains(replaced, i)
                          /\ IsEntryOf(At(font_datas', i), faces[k])
                     ELSE /\ Contains(skipped, i)
                          /\ At(font_datas', i) = At(font_datas, i)
      ]_vars


\* The files that parse.
ParsedFiles ==
    {x \in Contents : load_raw_data("a_ttf", x, EmptyMap, 0).result.ok}

\* The files that parse and hold no two faces with the same pair.
SoloFiles ==
    {x \in ParsedFiles :
        \A i, j \in DOMAIN ParsedFonts(x) :
            SamePair(ParsedFonts(x)[i], ParsedFonts(x)[j]) => i = j}

\* The cache holds the files x and y, and nothing else, from two paths.
TwoFilesLoaded(x, y) ==
    /\ ~panicked
    /\ DOMAIN raw_data_hashes_to_paths = {raw_data_hash_of(x), raw_data_hash_of(y)}
    /\ Len(paths) = 2
    /\ paths[1] # paths[2]

\* The entries of the cache with the pair of the parsed font f.
EntriesOfPair(f) == {i \in CacheIdxs : SamePair(At(font_datas, i), f)}

\* The triples <<x, f, y>> of two of the given files: f is a face of the
\* file x, the file y holds a face with the same pair, and f ranks higher
\* than that face.
BetterFacesOf(files) ==
    UNION {UNION {{<<x, ParsedFonts(x)[k], y>> : k \in
                      {k \in DOMAIN ParsedFonts(x) :
                          \E g \in Range(ParsedFonts(y)) :
                              /\ SamePair(ParsedFonts(x)[k], g)
                              /\ LexGreater(Rank(ParsedFonts(x)[k]), Rank(g))}} :
                  y \in files \ {x}} :
           x \in files}

BetterFaces == BetterFacesOf(ParsedFiles)

BetterFacesOfSoloFiles == BetterFacesOf(SoloFiles)

\* With the files of t loaded, the pair has one entry, the face t[2].
BetterFaceIsTheEntry(t) ==
    TwoFilesLoaded(t[1], t[3])
    => /\ Cardinality(EntriesOfPair(t[2])) = 1
       /\ \A i \in EntriesOfPair(t[2]) :
             /\ IsEntryOf(At(font_datas, i), t[2])
             /\ DATA[At(font_datas, i).raw_data_ref + 1] = t[1]

\* With the files of t loaded, a load_font_file of the lower-ranking file
\* from one of the two paths changes no entry.
ReloadChangesNothing(t) ==
    (/\ TwoFilesLoaded(t[1], t[3])
     /\ ret = NoCall /\ ret' # NoCall
     /\ ret'.op = "load_font_file"
     /\ ret'.args[1][1] \in Range(paths)
     /\ ret'.args[1][2] = t[3])
    => /\ ~panicked' /\ ret'.result.ok
       /\ font_datas' = font_datas

\* C5: when the files of two faces with the same pair, one ranking higher,
\* have been loaded from two paths in either order, the cache holds exactly
\* one entry for the pair and it is the higher-ranking face; loading the file
\* of the lower-ranking face again changes no cache entry.
C5_BetterFaceKept ==
    [][\A t \in BetterFaces : BetterFaceIsTheEntry(t)' /\ ReloadChangesNothing(t)]_vars

\* The same for files none of which holds two faces with the same pair.
BetterFaceKeptOfSoloFiles ==
    [][\A t \in BetterFacesOfSoloFiles :
           BetterFaceIsTheEntry(t)' /\ ReloadChangesNothing(t)]_vars

\* C6: a load_font_file that meets content an earlier load_font_file has
\* loaded (at the same or at another path) returns the index set that first
\* load returned and adds no cache entry.
C6_SameIndexSetAgain ==
    [][LoadFontFileReturns
         /\ raw_data_hash_of(ret'.args[1][2]) \in DOMAIN first_results =>
            /\ Range(ret'.result.val)
                   = Range(first_results[raw_data_hash_of(ret'.args[1][2])])
            /\ Len(font_datas') = Len(font_datas)
      ]_vars


\* A path and the file it holds load: load_raw_data returns Ok for them.
Loads(f) == load_raw_data(f[1], f[2], EmptyMap, 0).result.ok

\* load_multiple_font_files is returning a value.
LoadMultipleReturned ==
    ret # NoCall /\ ret.op = "load_multiple_font_files" /\ ~panicked

\* C7: when the same content is met at two distinct paths, the second load is
\* reported as AlreadyCached, and when nothing else was loaded the cache
\* holds as many entries as the file has faces.
C7_SecondLoadAlreadyCached ==
    /\ LoadMultipleReturned /\ ret.result.ok =>
          \A i, j \in DOMAIN ret.args :
              (i < j /\ ret.args[i][1] # ret.args[j][1] /\ ret.args[i][2] = ret.args[j][2])
              => /\ ret.cache_results[j].val.kind = "AlreadyCached"
                 /\ DOMAIN raw_data_hashes_to_paths = {raw_data_hash_of(ret.args[j][2])}
                        => Len(font_datas) = Len(ParsedFonts(ret.args[j][2]))
    /\ (ret # NoCall /\ ret.op = "load_font_file" /\ ~panicked /\ ret.result.ok
        /\ ret.args[1][1] # raw_data_hashes_to_paths[raw_data_hash_of(ret.args[1][2])]) =>
          /\ ret.cache_results[1].val.kind = "AlreadyCached"
          /\ DOMAIN raw_data_hashes_to_paths = {raw_data_hash_of(ret.args[1][2])}
                 => Len(font_datas) = Len(ParsedFonts(ret.args[1][2]))

\* The indices a CacheResult reports as newly cached or replaced.
NewOrReplaced(cache_result) ==
    IF cache_result.val.kind = "New"
    THEN Range(cache_result.val.newly_cached) \cup Range(cache_result.val.replaced)
    ELSE {}

\* C8: load_multiple_font_files returns the number of distinct indices its
\* paths newly cached or replaced.
C8_CountsNewOrReplaced ==
    LoadMultipleReturned /\ ret.result.ok =>
        ret.result.val
            = Cardinality(UNION {NewOrReplaced(ret.cache_results[k]) :
                                    k \in DOMAIN ret.cache_results})

\* C9: in load_multiple_font_files every path that loads is committed to the
\* cache, also when another path of the call fails: its content is known to
\* the cache afterwards.
C9_OtherPathsCommitted ==
    LoadMultipleReturned =>
        \A j \in DOMAIN ret.args :
            Loads(ret.args[j])
            => raw_data_hash_of(ret.args[j][2]) \in DOMAIN raw_data_hashes_to_paths

\* C10: a file whose load fails adds nothing to the cache: the cache after
\* the call is the cache the paths before the failing one leave (the cache
\* before the call, for load_font_file and for a first path).
C10_FailingFileAddsNothing ==
    [][(ret = NoCall /\ ret' # NoCall /\ ~panicked' /\ ~ret'.result.ok) =>
         LET k == Len(ret'.cache_results)
             before == SubSeq(ret'.args, 1, k - 1)
         IN  \E refs \in [1 .. k - 1 -> 0 .. Len(DATA')] :
               LET raw_datas == [i \in 1 .. k - 1 |->
                                    load_raw_data(before[i][1], before[i][2],
                                                  raw_data_hashes_to_paths,
                                                  refs[i]).result]
               IN  \E o \in commit_all(Cache, raw_datas, <<>>, <<>>, debug_assertions) :
                      o.st = Cache'
      ]_vars

\* C10 witness: in load_multiple_font_files a file without family name
\* failed after a file before it was committed.
C10_Witness ==
    /\ LoadMultipleReturned
    /\ ~ret.result.ok
    /\ ret.result.err = "MissingData"
    /\ Len(ret.cache_results) = 2
    /\ ret.cache_results[1].val.kind = "New"


\* The parallel phase of load_multiple_font_files is running before and
\* after the step.
InParallelPhase == par # NoCall /\ par' # NoCall

Resolved(st, data) ==
    [st EXCEPT
       !.font_datas = [k \in DOMAIN st.font_datas |->
                          [st.font_datas[k] EXCEPT
                             !.raw_data_ref = data[st.font_datas[k].raw_data_ref + 1]]],
       !.paths_to_data_refs = [p \in DOMAIN st.paths_to_data_refs |->
                                  data[st.paths_to_data_refs[p] + 1]]]

\* What load_multiple_font_files(batch) leaves when the parallel loads
\* append to the arena data in the order of the paths: the set of resolved
\* caches with the flag whether the call panicked.
InOrderOutcomes(st, hashes, data, batch, debug) ==
    LET appending == {i \in DOMAIN batch :
                         load_raw_data(batch[i][1], batch[i][2], hashes, 0).alloc}
        slot(i) == Len(data) + Cardinality({j \in appending : j < i})
        in_order == SelectSeq([i \in DOMAIN batch |-> i], LAMBDA i : i \in appending)
        data_after == data \o [k \in DOMAIN in_order |-> batch[in_order[k]][2]]
        raw_datas == [i \in DOMAIN batch |->
                         load_raw_data(batch[i][1], batch[i][2], hashes, slot(i)).result]
    IN  {<<Resolved(o.st, data_after), o.panicked, o.result>> :
            o \in commit_all(st, raw_datas, <<>>, <<>>, debug)}

\* C12: the cache load_multiple_font_files leaves (entries, indices, path and
\* index tables, with the bytes every reference points at) is the one the
\* in-order interleaving of the parallel loads leaves, whatever the
\* interleaving was: it is determined by the cache before the call, the
\* order of the paths in the argument and the contents of the files.
C12_SameCacheForEveryInterleaving ==
    [][(par # NoCall /\ par' = NoCall) =>
         LET expected ==
                 InOrderOutcomes(
                     Cache, raw_data_hashes_to_paths,
                     SubSeq(DATA, 1, Len(DATA) - Cardinality(allocating(par.batch))),
                     par.batch, debug_assertions)
         IN  /\ Cardinality(expected) = 1
             /\ <<Resolved(Cache', DATA'), panicked', ret'.result>> \in expected
      ]_vars

\* C12 witness: load_multiple_font_files has committed two files that both
\* went to the arena, the second path's bytes first.
C12_Witness ==
    /\ LoadMultipleReturned
    /\ Len(ret.args) = 2
    /\ ret.args[1][2] # ret.args[2][2]
    /\ DATA = <<ret.args[2][2], ret.args[1][2]>>
    /\ Len(font_datas) = 2
    /\ \E k \in DOMAIN ret.cache_results :
          ret.cache_results[k].ok /\ ret.cache_results[k].val.kind = "New"
                                 /\ ret.cache_results[k].val.replaced # <<>>


\* What identifies a face: its font index, its pair and its rank.
FaceOf(fd) ==
    <<fd.font_ref_idx, fd.family_name, fd.subfamily_name, Rank(fd)>>

\* The pairs <<file, face>> of the faces the files that parse hold.
FacesOfFiles ==
    UNION {IF load_raw_data("a_ttf", x, EmptyMap, 0).result.ok
           THEN {<<x, FaceOf(ParsedFonts(x)[k])>> : k \in DOMAIN ParsedFonts(x)}
           ELSE {} :
           x \in Contents}

\* The byte reference r is that of the face fd: the arena holds a buffer at
\* r, and that buffer holds the face.
RefIsValid(r, fd) ==
    /\ r < Len(DATA)
    /\ <<DATA[r + 1], FaceOf(fd)>> \in FacesOfFiles

\* Every byte reference held by the cache, and by the results of the
\* parallel loads not yet committed, is valid.
AllRefsValid ==
    /\ \A k \in DOMAIN font_datas :
          RefIsValid(font_datas[k].raw_data_ref, font_datas[k])
    /\ \A p \in DOMAIN paths_to_data_refs : paths_to_data_refs[p] < Len(DATA)
    /\ par # NoCall =>
          \A i \in DOMAIN par.raw_datas :
              (par.raw_datas[i].ok /\ par.raw_datas[i].val.kind = "New") =>
                  /\ par.raw_datas[i].val.raw_data_ref < Len(DATA)
                  /\ DATA[par.raw_datas[i].val.raw_data_ref + 1] = par.batch[i][2]

\* C13: the arena is append-only: every step, of any operation and any
\* interleaving of the parallel loads, keeps the buffers the arena holds at
\* their places, and every byte reference held stays valid.
C13_ArenaAppendOnly ==
    [][/\ Len(DATA') >= Len(DATA)
       /\ SubSeq(DATA', 1, Len(DATA)) = DATA
       /\ AllRefsValid'
      ]_vars

\* C13 witness: two parallel loads have appended, the second path first, and
\* the cache holds entries of both buffers.
C13_Witness ==
    /\ LoadMultipleReturned
    /\ Len(ret.args) = 2
    /\ DATA = <<ret.args[2][2], ret.args[1][2]>>
    /\ {font_datas[k].raw_data_ref : k \in DOMAIN font_datas} = {0, 1}

\* ------------------------------------------------------ the glyph cache
\* The key the last call of get_glyph_texture_bounds looked up.
IsGlyphCall == glyph_ret.op = "get_glyph_texture_bounds"
LastKey ==
    GlyphCacheKey(glyph_ret.args.font, glyph_ret.args.glyph_id,
                  floor_as_u32(Unwrap(glyph_ret.args.size)), glyph_ret.args.coords)

\* C14: a request returns the placement and the UV bounds the first request
\* of its key returned, whatever was requested in between, and the
\* rasterizer has run at most once (exactly once, when the key was ever
\* looked up and missed) for every key.
C14_SameBoundsRasterizedOnce ==
    /\ \A key \in DOMAIN rasterizer_calls : rasterizer_calls[key] = 1
    /\ \A key \in DOMAIN glyph_map : key \in DOMAIN rasterizer_calls
    /\ (IsGlyphCall /\ IsSome(glyph_ret.value)) =>
           /\ LastKey \in DOMAIN rasterizer_calls
           /\ Unwrap(glyph_ret.value) = first_bounds[LastKey]

\* A request answered from the cache, of a key that was inserted before
\* another key was.
C14_Witness ==
    /\ IsGlyphCall /\ IsSome(glyph_ret.value) /\ glyph_ret.cached
    /\ glyph_map[LastKey][1] = 0
    /\ Cardinality(DOMAIN glyph_map) = 2

\* C15: a key of glyph_map keeps its entry (the same allocation id and
\* placement) and its allocation keeps its rectangle in every step; after
\* every step each key has one allocation of the atlas and no two keys have
\* the same one.
C15_KeyKeepsItsAllocation ==
    [][/\ \A key \in DOMAIN glyph_map :
             /\ key \in DOMAIN glyph_map'
             /\ glyph_map'[key] = glyph_map[key]
             /\ glyph_map[key][1] \in DOMAIN atlas'
             /\ atlas'[glyph_map[key][1]] = atlas[glyph_map[key][1]]
       /\ \A key \in DOMAIN glyph_map' : glyph_map'[key][1] \in DOMAIN atlas'
       /\ \A k1, k2 \in DOMAIN glyph_map' :
             k1 # k2 => glyph_map'[k1][1] # glyph_map'[k2][1]]_vars

\* A second key has just been inserted next to the first.
C15_Witness ==
    /\ IsGlyphCall /\ IsSome(glyph_ret.value) /\ ~glyph_ret.cached
    /\ Cardinality(DOMAIN glyph_map) = 2

\* The bytes of the atlas buffer, counted from 0, that lie in a rectangle.
BytesOf(rectangle) ==
    {y * TextureRowSize + x : x \in rectangle.min_x .. rectangle.max_x - 1,
                              y \in rectangle.min_y .. rectangle.max_y - 1}

InsideAtlas(rectangle) ==
    /\ 0 <= rectangle.min_x /\ rectangle.min_x < rectangle.max_x
    /\ rectangle.max_x <= TextureRowSize
    /\ 0 <= rectangle.min_y /\ rectangle.min_y < rectangle.max_y
    /\ rectangle.max_y <= TextureRows

\* The allocations a step adds to the atlas.
NewAllocs == DOMAIN atlas' \ DOMAIN atlas

\* C16: after every step the rectangles of the atlas lie inside the atlas and
\* no two of them overlap, and a step changes bytes of the atlas buffer only
\* inside the rectangle it has allocated: it writes the four bytes of every
\* pixel of the glyph there, and nothing anywhere else.
C16_RectanglesDisjointBytesInside ==
    [][/\ \A id \in DOMAIN atlas' : InsideAtlas(atlas'[id])
       /\ \A i, j \in DOMAIN atlas' : i # j => ~Overlap(atlas'[i], atlas'[j])
       /\ \A i \in DOMAIN texture :
             texture'[i] # texture[i] =>
                \E id \in NewAllocs : i - 1 \in BytesOf(atlas'[id])
       /\ \A id \in NewAllocs :
             LET placement == Unwrap(glyph_ret'.value)[1]
                 rect == atlas'[id]
             IN  \A row \in 0 .. placement.height - 1,
                    value \in 0 .. placement.width - 1 :
                    texture'[(rect.min_y + row) * TextureRowSize
                             + rect.min_x + value * 4 + 1] # 0]_vars

\* Two glyphs are in the atlas, each with bytes in its rectangle.
C16_Witness ==
    /\ Cardinality(DOMAIN atlas) = 2
    /\ \A id \in DOMAIN atlas : \E o \in BytesOf(atlas[id]) : texture[o + 1] # 0

\* What the last call of queue_write_texture_if_changed did.
IsQueueWriteCall == glyph_ret.op = "queue_write_texture_if_changed"

\* C17: a step that inserts a glyph leaves the flag set; only
\* queue_write_texture_if_changed clears it; that call, when the flag is
\* set, uploads the whole atlas buffer and clears the flag, and when the
\* flag is clear uploads nothing; so whenever the flag is clear the texture
\* of the device holds every glyph inserted.
C17_DirtyUntilUploaded ==
    [][/\ glyph_map' # glyph_map => texture_data_dirty'
       /\ (texture_data_dirty /\ ~texture_data_dirty') => QueueWriteTextureIfChanged
       /\ gpu_texture' # gpu_texture => QueueWriteTextureIfChanged /\ texture_data_dirty
       /\ QueueWriteTextureIfChanged =>
             /\ ~texture_data_dirty'
             /\ gpu_texture' = IF texture_data_dirty THEN texture ELSE gpu_texture
             /\ texture' = texture
       /\ ~texture_data_dirty' => gpu_texture' = texture']_vars

\* An inserted glyph has been uploaded, and a further call found the flag
\* clear.
C17_Witness ==
    /\ IsQueueWriteCall /\ ~glyph_ret.wrote
    /\ glyph_map # EmptyMap
    /\ ~texture_data_dirty
    /\ gpu_texture = texture
    /\ \E i \in DOMAIN gpu_texture : gpu_texture[i] # 0

\* The step is a call of get_glyph_texture_bounds that missed, got a
\* placement from the rasterizer and panicked for want of a rectangle.
AllocationFailed ==
    /\ ~glyph_panicked /\ glyph_panicked'
    /\ IsSome(glyph_ret'.args.size)
    /\ IsSome(render_mask(glyph_ret'.args.font, glyph_ret'.args.glyph_id,
                          glyph_ret'.args.size, glyph_ret'.args.coords))

\* C18: a call for which the allocator has no rectangle panics: it returns
\* no bounds, and leaves glyph_map, the allocations of the atlas, the atlas
\* buffer, the texture of the device and the dirty flag as they were.
C18_AllocationFailureIsFatal ==
    [][AllocationFailed =>
          /\ glyph_ret'.value = None
          /\ glyph_map' = glyph_map
          /\ atlas' = atlas
          /\ texture' = texture
          /\ gpu_texture' = gpu_texture
          /\ texture_data_dirty' = texture_data_dirty
          /\ first_bounds' = first_bounds]_vars

\* A glyph that fits the scratch buffer found the atlas, holding a glyph
\* already uploaded, without room.
C18_Witness ==
    /\ glyph_panicked /\ IsGlyphCall
    /\ IsSome(glyph_ret.args.size)
    /\ LET rendered == render_mask(glyph_ret.args.font, glyph_ret.args.glyph_id,
                                   glyph_ret.args.size, glyph_ret.args.coords)
       IN  /\ IsSome(rendered)
           /\ Len(Unwrap(rendered).mask) <= Len(draw_texture)
           /\ Unwrap(rendered).placement.width > 0
    /\ glyph_map # EmptyMap
    /\ ~texture_data_dirty

\* ------------------------------------------------------------ the lookups
\* Two names are equal ignoring case: equal once every letter, accented or
\* not, is put in lower case.
EqIgnoringCase(a, b) == to_lowercase(a) = to_lowercase(b)

\* Two names are equal ignoring the case of the letters A-Z only.
EqIgnoringAsciiCase(a, b) == to_ascii_lowercase(a) = to_ascii_lowercase(b)

\* What find_font promises of the call in ret, Eq(a, b) being the equality
\* of names: the entries that match are those of the family that, when a
\* subfamily is asked for, have that subfamily; the call returns the only
\* one or, no subfamily asked for, the one of lowest index, and NotCached
\* exactly when there is none or, a subfamily asked for, more than one.
FindFontContract(Eq(_, _)) ==
    LET family_name == ret.args[1]
        subfamily_name == ret.args[2]
        Matching ==
            {i \in CacheIdxs :
                /\ Eq(At(font_datas, i).family_name, family_name)
                /\ IsSome(subfamily_name) =>
                       /\ IsSome(At(font_datas, i).subfamily_name)
                       /\ Eq(Unwrap(At(font_datas, i).subfamily_name),
                             Unwrap(subfamily_name))}
        Ambiguous == IsSome(subfamily_name) /\ Cardinality(Matching) > 1
    IN  /\ ret.result.ok =>
              /\ ret.result.val \in Matching
              /\ ~IsSome(subfamily_name) => \A i \in Matching : ret.result.val <= i
        /\ ~ret.result.ok <=> (Matching = {} \/ Ambiguous)

\* C19: find_font returns an entry of the family asked for, names compared
\* ignoring case, with the subfamily asked for if any, the lowest in index
\* if none; NotCached exactly when no entry matches or, with a subfamily,
\* several do.
C19_FindFontIgnoringCase ==
    ret.op = "find_font" => FindFontContract(EqIgnoringCase)

\* C19, amended: the same with names compared ignoring the case of the
\* letters A-Z only; an accented capital matches itself alone.
C19_FindFontIgnoringAsciiCase ==
    ret.op = "find_font" => FindFontContract(EqIgnoringAsciiCase)

\* The three outcomes: the lowest of several entries of a family asked for
\* in another case, NotCached for a subfamily two entries have, NotCached
\* for a family not cached.
C19_Witness ==
    /\ ret.op = "find_font"
    /\ Cardinality({i \in CacheIdxs :
                       EqIgnoringAsciiCase(At(font_datas, i).family_name,
                                           ret.args[1])}) >= 2
    /\ ret.args[1] = arial
    /\ ret.args[2] = None
    /\ ret.result = Ok(0)

C19_WitnessAmbiguous ==
    /\ ret.op = "find_font"
    /\ ret.args = <<arial, Some(Regular)>>
    /\ ret.result = Err("NotCached")
    /\ Len(font_datas) >= 2

\* The whitespace-separated words of a search string.
Words(search_string) == SelectSeq(split(search_string), LAMBDA w : w # <<>>)

\* A name contains a part ignoring case; an entry without subfamily has the
\* empty string for one.
ContainsIgnoringCase(name, part) == contains(to_lowercase(name), to_lowercase(part))

SubfamilyOrEmpty(fd) ==
    IF IsSome(fd.subfamily_name) THEN Unwrap(fd.subfamily_name) ELSE <<>>

\* The entries search_fonts is to return for a search string.
SearchMatches(search_string) ==
    LET words == Words(search_string)
        Matches(fd, k) ==
            LET prefix == join(SubSeq(words, 1, k))
                suffix == join(SubSeq(words, k + 1, Len(words)))
            IN  \/ /\ ContainsIgnoringCase(fd.family_name, prefix)
                   /\ ContainsIgnoringCase(SubfamilyOrEmpty(fd), suffix)
                \/ /\ ContainsIgnoringCase(fd.family_name, suffix)
                   /\ ContainsIgnoringCase(SubfamilyOrEmpty(fd), prefix)
    IN  {i \in CacheIdxs : \E k \in 0 .. Len(words) : Matches(At(font_datas, i), k)}

\* C20: search_fonts returns exactly the entries that, for some split of the
\* words of the search string into a prefix and a suffix (either may be
\* empty), contain the prefix in the family and the suffix in the subfamily
\* or the other way round, ignoring case; each once, in the order of the
\* cache indices.
C20_SearchFontsReturnsTheMatches ==
    ret.op = "search_fonts" =>
       /\ Range(ret.result) = SearchMatches(ret.args[1])
       /\ \A i, j \in DOMAIN ret.result : i < j => ret.result[i] < ret.result[j]

\* The least of it: a search for the family name of a cached entry, as it
\* is written in the font, returns that entry.
SearchFindsFamilyByItsName ==
    ret.op = "search_fonts" =>
       \A i \in CacheIdxs :
          ret.args[1] = At(font_datas, i).family_name => Contains(ret.result, i)

\* The order and the absence of duplicates by themselves.
SearchResultSortedNoDuplicates ==
    ret.op = "search_fonts" =>
       \A i, j \in DOMAIN ret.result : i < j => ret.result[i] < ret.result[j]

\* The cache holds a face of family Arial and subfamily Regular.
HasArialRegular ==
    \E i \in CacheIdxs :
       /\ At(font_datas, i).family_name = Arial
       /\ At(font_datas, i).subfamily_name = Some(Regular)

\* The last call was search_fonts("regular arial").
SearchedRegularArial ==
    ret.op = "search_fonts" /\ ret.args[1] = regular \o <<" ">> \o arial

\* C21: with a face Arial / Regular in the cache, search_fonts of
\* "regular arial" returns the set of entries search_fonts of "arial
\* regular" returns.
C21_SearchSymmetric ==
    (HasArialRegular /\ SearchedRegularArial) =>
       Range(ret.result)
           = Range(search_fonts(font_datas, arial \o <<" ">> \o regular))

\* The entries whose family holds one of the two phrases whole.
PhraseFamilies ==
    {i \in CacheIdxs :
        \/ contains(to_ascii_lowercase(At(font_datas, i).family_name),
                    arial \o <<" ">> \o regular)
        \/ contains(to_ascii_lowercase(At(font_datas, i).family_name),
                    regular \o <<" ">> \o arial)}

\* C21, amended: the two searches return the same entries among those whose
\* family holds neither phrase whole, the faces Arial / Regular among them.
C21_SearchSymmetricButForPhraseFamilies ==
    (HasArialRegular /\ SearchedRegularArial) =>
       /\ Range(ret.result) \ PhraseFamilies
              = Range(search_fonts(font_datas, arial \o <<" ">> \o regular))
                    \ PhraseFamilies
       /\ \A i \in CacheIdxs :
             (/\ At(font_datas, i).family_name = Arial
              /\ At(font_datas, i).subfamily_name = Some(Regular))
                 => Contains(ret.result, i)

\* The search was made with Arial / Regular and another face of the family
\* in the cache, and returned the former only.
C21_Witness ==
    /\ HasArialRegular /\ SearchedRegularArial
    /\ Len(font_datas) >= 2
    /\ Len(ret.result) = 1

\* --------------------------------------------------------- the lazy fields
\* The cells of the lazy data: an entry and one of its OnceLock fields.
LazyCells == CacheIdxs \X LazyFields

LazyCell(lfd, c) == At(lfd, c[1])[c[2]]

\* The threads in the closure of a cell.
Initializers(c) ==
    {t \in Threads :
        /\ threads[t].pc = "in_call"
        /\ threads[t].idx = c[1]
        /\ \E k \in DOMAIN threads[t].frames :
              threads[t].frames[k].field = c[2] /\ threads[t].frames[k].at = "run"}

\* The value a cell is to hold: built from the bytes and the font index of
\* its entry, the shaping data and the outlines from the face of the entry.
FullyConstructed(c, value) ==
    IF c[2] = "ext_font_ref"
    THEN /\ value.data = At(font_datas, c[1]).raw_data_ref
         /\ value.index = At(font_datas, c[1]).font_ref_idx
    ELSE /\ IsSome(LazyCell(lazy_font_datas, <<c[1], "ext_font_ref">>))
         /\ value.of = Unwrap(LazyCell(lazy_font_datas, <<c[1], "ext_font_ref">>))

\* C22: in every step of the threads a cell that is set keeps its value (it
\* is set once); after every step at most one thread is in the closure of
\* a cell, and none in that of a cell that is set, and every value a caller
\* holds is the value of its cell, fully constructed.
C22_LazyFieldsInitializedOnce ==
    [][/\ threads' # threads =>
             \A c \in LazyCells :
                IsSome(LazyCell(lazy_font_datas, c)) =>
                   LazyCell(lazy_font_datas', c) = LazyCell(lazy_font_datas, c)
       /\ (\A c \in LazyCells :
              /\ Cardinality(Initializers(c)) <= 1
              /\ IsSome(LazyCell(lazy_font_datas, c)) =>
                    /\ Initializers(c) = {}
                    /\ FullyConstructed(c, Unwrap(LazyCell(lazy_font_datas, c))))'
       /\ (\A t \in Threads :
              threads[t].pc = "returned" =>
                 LazyCell(lazy_font_datas, <<threads[t].idx, threads[t].field>>)
                     = Some(threads[t].value))']_vars

\* Two threads asked for the shaping data of one entry for the first time
\* while neither had it: one ran the closures, and both hold its Box.
C22_Witness ==
    /\ \A t \in Threads :
          /\ threads[t].pc = "returned"
          /\ threads[t].idx = 0
          /\ threads[t].field = "shaper_data"
          /\ threads[t].value.box = 2
          /\ threads[t].value.of.box = 1

\* A thread waits at get_or_init for the closure another thread runs.
C22_WitnessWaiting ==
    \E t, u \in Threads :
       /\ t \in Initializers(<<0, "ext_font_ref">>)
       /\ threads[u].pc = "in_call"
       /\ threads[u].idx = 0
       /\ threads[u].frames = <<Frame("ext_font_ref")>>

\* ------------------------------------------------------- files without news
\* The step is a call of load_font_file.
LoadFontFileStep == ret = NoCall /\ ret'.op = "load_font_file"

\* The step is a call of load_font_file that store_raw_data answered with
\* NoNewData.
NoNewDataStep ==
    /\ LoadFontFileStep
    /\ ret'.cache_results[1].ok
    /\ ret'.cache_results[1].val.kind = "NoNewData"

\* The content is read from a path load_raw_data takes for a font file.
Readable(path, file) == from_path(path, file).ok /\ file # "Unreadable"

\* C23: a load_font_file answered with NoNewData pushes the path and its
\* file type, maps the hash of the content to the path and the path to no
\* index and to its bytes, and changes no entry, no lazy data and no index
\* set of another path; hashes are never forgotten, and every load that
\* reads content whose hash is known is answered with AlreadyCached.
C23_NoNewDataOnlyBookkeeping ==
    [][/\ NoNewDataStep =>
             LET path == ret'.args[1][1]
                 file == ret'.args[1][2]
             IN  /\ font_datas' = font_datas
                 /\ lazy_font_datas' = lazy_font_datas
                 /\ \A p \in DOMAIN paths_to_font_idxs \ {path} :
                       /\ p \in DOMAIN paths_to_font_idxs'
                       /\ paths_to_font_idxs'[p] = paths_to_font_idxs[p]
                 /\ paths' = Append(paths, path)
                 /\ Len(font_file_types') = Len(font_file_types) + 1
                 /\ raw_data_hash_of(file) \in DOMAIN raw_data_hashes_to_paths'
                 /\ raw_data_hashes_to_paths'[raw_data_hash_of(file)] = path
                 /\ paths_to_font_idxs'[path] = <<>>
       /\ DOMAIN raw_data_hashes_to_paths \subseteq DOMAIN raw_data_hashes_to_paths'
       /\ LoadFontFileStep =>
             LET path == ret'.args[1][1]
                 file == ret'.args[1][2]
             IN  (/\ Readable(path, file)
                  /\ raw_data_hash_of(file) \in DOMAIN raw_data_hashes_to_paths)
                    => /\ ret'.cache_results[1].ok
                       /\ ret'.cache_results[1].val.kind = "AlreadyCached"
                       /\ ret'.cache_results[1].val.path
                              = raw_data_hashes_to_paths[raw_data_hash_of(file)]]_vars

\* A file all of whose faces were skipped has just been loaded next to the
\* file that holds the better faces.
C23_Witness ==
    /\ ret.op = "load_font_file"
    /\ ret.cache_results[1].ok
    /\ ret.cache_results[1].val.kind = "NoNewData"
    /\ ret.cache_results[1].val.existing_idxs # <<>>
    /\ Len(paths) = 2

\* The content of a file without new data has been loaded again, from
\* another path, and found cached at the path of the first load.
C23_WitnessLaterLoad ==
    /\ ret.op = "load_font_file"
    /\ ret.cache_results[1].ok
    /\ ret.cache_results[1].val.kind = "AlreadyCached"
    /\ ret.cache_results[1].val.path # ret.args[1][1]
    /\ ret.cache_results[1].val.idxs = <<>>
    /\ \A i \in CacheIdxs :
          At(font_datas, i).raw_data_ref
              # paths_to_data_refs[ret.cache_results[1].val.path]

\* ------------------------------------------------- paths that cannot load
\* The extensions load_raw_data accepts.
AcceptedExtensions ==
    {<<"t","t","f">>, <<"o","t","f">>, <<"t","t","c">>, <<"o","t","c">>}

\* The path has no extension, or one that is, ASCII case aside, not accepted.
BadExtension(path) ==
    \/ PathExtension[path] = None
    \/ to_ascii_lowercase(Unwrap(PathExtension[path])) \notin AcceptedExtensions

\* What a call that has returned reports for its k-th path: the error, or
\* None when that path did not fail.
ErrorOf(k) ==
    IF ret.cache_results[k].ok THEN None ELSE Some(ret.cache_results[k].err)

\* A load has returned, and its k-th path was loaded.
Loaded(k) ==
    /\ ret # NoCall
    /\ ret.op \in {"load_font_file", "load_multiple_font_files"}
    /\ k \in DOMAIN ret.cache_results

\* C24 as stated: every path with an extension that is not accepted, or with
\* none, fails with FileExtension, and every file that is missing or cannot
\* be read fails with NotFound or an IO error.
C24_BadExtensionFailsUnreadableFails ==
    \A k \in 1 .. MaxBatch :
       Loaded(k) =>
          LET path == ret.args[k][1]
              file == ret.args[k][2]
          IN  /\ BadExtension(path) => ErrorOf(k) = Some("FileExtension")
              /\ file \in {"NotFound", "Unreadable"}
                    => ErrorOf(k) \in {Some("NotFound"), Some("Io")}

\* C24, amended: a path at which no file exists fails with NotFound; an
\* existing path with an extension that is not accepted, or with none, fails
\* with FileExtension, whether its file can be read or not; an existing path
\* with an accepted extension whose file cannot be read fails with an IO
\* error.
C24_NotFoundThenExtensionThenRead ==
    \A k \in 1 .. MaxBatch :
       Loaded(k) =>
          LET path == ret.args[k][1]
              file == ret.args[k][2]
          IN  ErrorOf(k) =
                 (IF file = "NotFound" THEN Some("NotFound")
                  ELSE IF BadExtension(path) THEN Some("FileExtension")
                  ELSE IF file = "Unreadable" THEN Some("Io")
                  ELSE ErrorOf(k))

\* A path without a file and with an extension that is not accepted has
\* been loaded.
C24_Witness ==
    /\ Loaded(1)
    /\ BadExtension(ret.args[1][1])
    /\ ret.args[1][2] = "NotFound"
    /\ font_datas # <<>>

\* A path with an accepted extension in capitals whose file cannot be read
\* has been loaded as the second of a batch.
C24_WitnessUnreadable ==
    /\ Loaded(2)
    /\ ~BadExtension(ret.args[2][1])
    /\ ret.args[2][2] = "Unreadable"

\* ------------------------------------------------------ prepared geometry
\* The step is a call of prepare_draw_for_glyph.
PrepareDrawStep ==
    /\ glyph_ret'.op = "prepare_draw_for_glyph"
    /\ vertices' # vertices

\* The last n elements pushed to vec.
LastPushed(vec, n) ==
    SubSeq(vec.pushed, Len(vec.pushed) - n + 1, Len(vec.pushed))

\* C25: a call of prepare_draw_for_glyph appends 4 vertices and the 6
\* indices base+0, base+1, base+2, base+2, base+3, base+0, base being the
\* number of vertices before the call, and leaves the atlas, its bytes,
\* the dirty flag, the glyph map, the scratch buffer, the count of
\* rasterizations and the texture of the device as they were.
C25_FourVerticesSixIndicesFromBase ==
    [][PrepareDrawStep =>
          LET base == vertices.len
          IN  /\ vertices'.len = vertices.len + 4
              /\ indices'.len = indices.len + 6
              /\ Len(indices'.pushed) >= 6
              /\ LastPushed(indices', 6)
                    = <<base, base + 1, base + 2, base + 2, base + 3, base>>
              /\ UNCHANGED <<atlas, draw_texture, texture, texture_data_dirty,
                             glyph_map, rasterizer_calls, gpu_texture>>]_vars

\* The part of C25 that holds of every call: 4 vertices are appended and
\* the glyph cache is left as it was.
C25_FourVerticesCacheUntouched ==
    [][PrepareDrawStep =>
          /\ vertices'.len = vertices.len + 4
          /\ UNCHANGED <<atlas, draw_texture, texture, texture_data_dirty,
                         glyph_map, rasterizer_calls, gpu_texture>>]_vars

\* C25 holds of every call made with buffers that hold at most 65,532
\* vertices.
C25_HoldsBelowU16Max ==
    [][(PrepareDrawStep /\ vertices.len + 3 <= U16_MAX) =>
          LET base == vertices.len
          IN  /\ indices'.len = indices.len + 6
              /\ LastPushed(indices', 6)
                    = <<base, base + 1, base + 2, base + 2, base + 3, base>>]_vars

\* A glyph has been prepared into buffers that held 65,536 vertices, with
\* a glyph in the atlas and the atlas not yet uploaded.
C25_Witness ==
    /\ glyph_ret.op = "prepare_draw_for_glyph"
    /\ vertices.len = U16_MAX + 5
    /\ indices.len = 6 * 16385
    /\ glyph_map # EmptyMap
    /\ texture_data_dirty

\* ------------------------------------------------- the unlink of a replacement
\* What load_raw_data hands to store_raw_data in a load_font_file step.
RawOfStep ==
    load_raw_data(ret'.args[1][1], ret'.args[1][2], raw_data_hashes_to_paths,
                  Len(DATA)).result

\* The load_font_file step reaches the loop over the staged replacements of
\* its file, and there are some.
ReplacementsApplied ==
    /\ LoadFontFileStep
    /\ RawOfStep.ok
    /\ RawOfStep.val.kind = "New"
    /\ LET c == classify(Cache, RawOfStep.val)
       IN  /\ c.replace_font_datas # <<>>
           /\ debug_assertions
                 => sanity_checks_before(Cache, Len(c.new_font_datas))

\* The cache on entering the loop over the staged replacements.
CacheBeforeReplacements ==
    LET c == classify(Cache, RawOfStep.val)
    IN  record_path(Cache, RawOfStep.val,
                    [k \in 1 .. Len(c.new_font_datas) |-> Len(font_datas) + k - 1]
                        \o [k \in DOMAIN c.replace_font_datas |->
                                c.replace_font_datas[k][1]])

\* C26: whenever store_raw_data applies the staged replacements of a file,
\* each replaced index is in the index set of exactly one path other than
\* the path of the file: the sanity check before the unlink holds, also in
\* a build that does not evaluate it, and the unlink finds its path.
C26_ReplacedIndexHasOneOtherPath ==
    [][ReplacementsApplied =>
          \A o \in apply_replacements(
                       CacheBeforeReplacements, ret'.args[1][1],
                       classify(Cache, RawOfStep.val).replace_font_datas, TRUE) :
             ~o[2]]_vars

\* ---------------------------------------------------- duplicates at commit
\* The face and the entry have the same (family, subfamily) pair, names
\* compared as find_font compares them; a pair without subfamily is the
\* same only as a pair without subfamily.
SamePairOfNames(face, entry) ==
    /\ EqIgnoringAsciiCase(face.family_name, entry.family_name)
    /\ IsSome(face.subfamily_name) = IsSome(entry.subfamily_name)
    /\ IsSome(face.subfamily_name)
          => EqIgnoringAsciiCase(Unwrap(face.subfamily_name),
                                 Unwrap(entry.subfamily_name))

\* The load_font_file step commits a file that load_raw_data has parsed.
CommitsParsedFile ==
    /\ LoadFontFileStep
    /\ RawOfStep.ok
    /\ RawOfStep.val.kind = "New"

\* C27: in the commit of a file, a face replaces only an entry with its own
\* (family, subfamily) pair, and a face whose pair no entry has is staged
\* as a new entry; a pair without subfamily is the pair of an entry without
\* subfamily only.
C27_DuplicateOnlyOfTheSamePair ==
    [][CommitsParsedFile =>
          LET faces == RawOfStep.val.font_datas
              c == classify(Cache, RawOfStep.val)
          IN  /\ \A k \in DOMAIN c.replace_font_datas :
                    SamePairOfNames(c.replace_font_datas[k][2],
                             At(font_datas, c.replace_font_datas[k][1]))
              /\ \A i \in DOMAIN faces :
                    (\A idx \in CacheIdxs : ~SamePairOfNames(faces[i], At(font_datas, idx)))
                       => \E k \in DOMAIN c.new_font_datas :
                             c.new_font_datas[k].font_ref_idx = faces[i].font_ref_idx]_vars

\* C27 holds of the faces that have a subfamily, in a cache that holds no
\* pair twice.
C27_HoldsForFacesWithSubfamily ==
    [][(/\ CommitsParsedFile
        /\ \A i, j \in CacheIdxs :
              SamePairOfNames(At(font_datas, i), At(font_datas, j)) => i = j) =>
          LET faces == RawOfStep.val.font_datas
              c == classify(Cache, RawOfStep.val)
          IN  /\ \A k \in DOMAIN c.replace_font_datas :
                    IsSome(c.replace_font_datas[k][2].subfamily_name)
                       => SamePairOfNames(c.replace_font_datas[k][2],
                                   At(font_datas, c.replace_font_datas[k][1]))
              /\ \A i \in DOMAIN faces :
                    (/\ IsSome(faces[i].subfamily_name)
                     /\ \A idx \in CacheIdxs : ~SamePairOfNames(faces[i], At(font_datas, idx)))
                       => \E k \in DOMAIN c.new_font_datas :
                             c.new_font_datas[k].font_ref_idx = faces[i].font_ref_idx]_vars

\* ------------------------------------------------------ the four tables
\* C28: after every load that returned, there are as many recorded paths as
\* content hashes, as paths with an index set, and as recorded file types.
C28_TablesOfEqualSize ==
    (ret # NoCall /\ ~panicked) =>
       /\ Len(paths) = Cardinality(DOMAIN raw_data_hashes_to_paths)
       /\ Len(paths) = Cardinality(DOMAIN paths_to_font_idxs)
       /\ Len(paths) = Len(font_file_types)

\* The part of C28 that holds of every load: a file type is recorded with
\* every path, and no table is larger than the list of paths.
C28_FileTypePerPath ==
    (ret # NoCall /\ ~panicked) =>
       /\ Len(paths) = Len(font_file_types)
       /\ Cardinality(DOMAIN raw_data_hashes_to_paths) <= Len(paths)
       /\ Cardinality(DOMAIN paths_to_font_idxs) <= Len(paths)

\* ------------------------------------------------------ bytes of the arena
\* The sum of the lengths of the buffers refs points to.
RECURSIVE LinkedBytes(_)
LinkedBytes(refs) ==
    IF refs = {} THEN 0
    ELSE LET r == CHOOSE x \in refs : TRUE
         IN  FileData[DATA[r + 1]].len + LinkedBytes(refs \ {r})

\* The buffers the recorded paths are linked to.
LinkedBuffers == {paths_to_data_refs[p] : p \in DOMAIN paths_to_data_refs}

\* C29: after every load, whether it returned a value or an error, the
\* lengths of the buffers the recorded paths are linked to sum to
\* raw_data_size.
C29_LinkedBytesAreTheArena ==
    (ret # NoCall /\ ~panicked) => LinkedBytes(LinkedBuffers) = raw_data_size(DATA)

\* The part of C29 that holds of every load: each recorded path is linked
\* to a buffer of the arena, so the linked bytes never exceed
\* raw_data_size.
C29_LinkedBytesInTheArena ==
    /\ LinkedBuffers \subseteq 0 .. Len(DATA) - 1
    /\ LinkedBytes(LinkedBuffers) <= raw_data_size(DATA)

\* ------------------------------------------------- a batch and its sequence
\* What the calls load_font_file(p1), ..., load_font_file(pn) leave, made in
\* that order on the cache st and the arena data: the cache, the arena, and
\* whether every call returned Ok.
RECURSIVE OneByOne(_, _, _, _)
OneByOne(st, data, batch, debug) ==
    IF batch = <<>> THEN {[st |-> st, data |-> data, ok |-> TRUE]}
    ELSE LET path == Head(batch)[1]
             file == Head(batch)[2]
             loaded == load_raw_data(path, file, st.raw_data_hashes_to_paths, Len(data))
             data_after == IF loaded.alloc THEN arena_alloc(data, file) ELSE data
         IN  UNION {IF o.panicked \/ ~o.result.ok
                    THEN {[st |-> o.st, data |-> data_after, ok |-> FALSE]}
                    ELSE OneByOne(o.st, data_after, Tail(batch), debug) :
                    o \in store_raw_data(st, loaded.result, debug)}

\* The entries of the cache st by index, each with the bytes of its file.
Entries(st, data) == Resolved(st, data).font_datas

\* The step is a call of load_multiple_font_files every path of which loaded
\* and was committed.
BatchLoadedStep ==
    /\ ret = NoCall
    /\ ret'.op = "load_multiple_font_files"
    /\ ~panicked'
    /\ ret'.result.ok

\* C30: a call of load_multiple_font_files every path of which loads leaves
\* the entries, index by index, that the calls of load_font_file on the
\* paths in their order leave when each of them returns Ok.
C30_BatchLeavesEntriesOfSequence ==
    [][BatchLoadedStep =>
          \A o \in OneByOne(Cache, DATA, ret'.args, debug_assertions) :
             o.ok => Entries(Cache', DATA') = Entries(o.st, o.data)]_vars

\* No file of the batch holds two faces of one pair.
NoPairTwiceInAFile(batch) ==
    \A k \in DOMAIN batch :
       LET faces == FileData[batch[k][2]].fonts
       IN  \A i, j \in DOMAIN faces :
              (/\ faces[i].family_name = faces[j].family_name
               /\ faces[i].subfamily_name = faces[j].subfamily_name) => i = j

\* C30 holds of the batches none of whose files holds a pair twice, on a
\* cache that holds no pair twice.
C30_HoldsWithoutPairsTwice ==
    [][(/\ BatchLoadedStep
        /\ NoPairTwiceInAFile(ret'.args)
        /\ \A i, j \in CacheIdxs :
              SamePairOfNames(At(font_datas, i), At(font_datas, j)) => i = j) =>
          \A o \in OneByOne(Cache, DATA, ret'.args, debug_assertions) :
             o.ok => Entries(Cache', DATA') = Entries(o.st, o.data)]_vars

\* ------------------------------------------------- the indices of a commit
\* The step is a call of load_font_file or load_multiple_font_files that
\* returned, with a value or an Err.
LoadReturnsStep ==
    /\ ret = NoCall
    /\ ret'.op \in {"load_font_file", "load_multiple_font_files"}
    /\ ~panicked'

\* The indices the k-th commit of the call reports as newly cached, and as
\* replaced.
NewlyCachedBy(k) ==
    IF ret'.cache_results[k].ok /\ ret'.cache_results[k].val.kind = "New"
    THEN ret'.cache_results[k].val.newly_cached ELSE <<>>
ReplacedBy(k) ==
    IF ret'.cache_results[k].ok /\ ret'.cache_results[k].val.kind = "New"
    THEN ret'.cache_results[k].val.replaced ELSE <<>>

\* The number of entries before the k-th commit of the call.
RECURSIVE EntriesBefore(_)
EntriesBefore(k) ==
    IF k = 1 THEN Len(font_datas)
    ELSE EntriesBefore(k - 1) + Len(NewlyCachedBy(k - 1))

\* The entry is a face of a file of the call, with the bytes of that file.
FaceOfTheCall(entry) ==
    \E k \in DOMAIN ret'.args :
       /\ FileData[ret'.args[k][2]].parsable
       /\ DATA'[entry.raw_data_ref + 1] = ret'.args[k][2]
       /\ \E f \in DOMAIN FileData[ret'.args[k][2]].fonts :
             LET parsed == parse_font(FileData[ret'.args[k][2]].fonts[f], f - 1)
             IN  /\ parsed.ok
                 /\ parsed.val.font_ref_idx = entry.font_ref_idx
                 /\ parsed.val.family_name = entry.family_name
                 /\ parsed.val.subfamily_name = entry.subfamily_name
                 /\ parsed.val.revision = entry.revision

\* C31: no step takes an entry away; each commit of a load that returns
\* reports as newly cached the contiguous indices from the number of
\* entries before it, the entries at the new and at the replaced indices
\* are faces of the files of the call, and every other entry is at its
\* index as it was.
C31_IndicesContiguousOthersUnchanged ==
    [][/\ Len(font_datas') >= Len(font_datas)
       /\ LoadReturnsStep =>
             LET results == ret'.cache_results
                 news == UNION {Range(NewlyCachedBy(k)) : k \in DOMAIN results}
                 replaced == UNION {Range(ReplacedBy(k)) : k \in DOMAIN results}
             IN  /\ \A k \in DOMAIN results :
                       NewlyCachedBy(k)
                          = [i \in 1 .. Len(NewlyCachedBy(k)) |-> EntriesBefore(k) + i - 1]
                 /\ Len(font_datas') = EntriesBefore(Len(results) + 1)
                 /\ replaced \subseteq 0 .. Len(font_datas) - 1 \cup news
                 /\ \A i \in news \cup replaced : FaceOfTheCall(At(font_datas', i))
                 /\ \A i \in (0 .. Len(font_datas) - 1) \ replaced :
                       At(font_datas', i) = At(font_datas, i)]_vars

\* A load has appended an entry behind the entries of an earlier load and
\* replaced one of those.
C31_Witness ==
    /\ ret.op = "load_font_file"
    /\ ~panicked
    /\ ret.cache_results[1].ok
    /\ ret.cache_results[1].val.kind = "New"
    /\ ret.cache_results[1].val.replaced # <<>>
    /\ ret.cache_results[1].val.newly_cached # <<>>
    /\ ret.cache_results[1].val.newly_cached[1] > 0

\* --------------------------------------------- hits and the face they show
\* The scratch buffer after render_mask has put mask at its start.
Drawn(mask) == [i \in DOMAIN draw_texture |-> IF i <= Len(mask) THEN mask[i] ELSE 0]

\* The call in glyph_ret returned the placement of the glyph as the face
\* now at its cache index draws it, and the atlas holds that drawing at the
\* allocation of the key.
ReturnedGlyphOfCurrentFace ==
    LET args == glyph_ret.args
        rendered == Unwrap(render_mask(args.font, args.glyph_id, args.size, args.coords))
        rectangle == atlas[glyph_map[LastKey][1]]
    IN  /\ Unwrap(glyph_ret.value)[1] = rendered.placement
        /\ Unwrap(glyph_ret.value)[2] = result_uv_bounds(rectangle, rendered.placement)
        /\ blit(texture, Drawn(rendered.mask), rectangle, rendered.placement) = texture

\* C32: a request answered from the glyph map returns the glyph as the
\* face now stored at the cache index of the key draws it.
C32_HitShowsCurrentFace ==
    [][(/\ glyph_ret' # glyph_ret
        /\ glyph_ret'.op = "get_glyph_texture_bounds"
        /\ glyph_ret'.cached)
          => ReturnedGlyphOfCurrentFace']_vars

\* A request that missed returns the glyph as the face now stored at the
\* cache index draws it.
C32_MissShowsCurrentFace ==
    [][(/\ glyph_ret' # glyph_ret
        /\ glyph_ret'.op = "get_glyph_texture_bounds"
        /\ ~glyph_ret'.cached
        /\ IsSome(glyph_ret'.value))
          => ReturnedGlyphOfCurrentFace']_vars

\* A glyph of entry 0 was requested and answered from the glyph map after
\* the entry had been replaced.
C32_Witness ==
    /\ IsGlyphCall
    /\ glyph_ret.cached
    /\ DOMAIN paths_to_font_idxs = {"a_ttf", "c_TTC"}
    /\ paths_to_font_idxs["a_ttf"] = <<>>
    /\ paths_to_font_idxs["c_TTC"] = <<0>>

\* ------------------------------------------- lazy data and the entry it is of
\* The step replaces the entry at cache index i.
Replaces(i) ==
    /\ i < Len(font_datas)
    /\ At(font_datas', i) # At(font_datas, i)

\* C33: every populated lazy field of an index is built from the bytes and
\* the face index of the entry now at the index, the shaping data and the
\* outlines from the populated face handle of that entry; and the step that
\* replaces an entry leaves the lazy data of its index empty.
C33_LazyDataOfTheCurrentEntry ==
    [][/\ (\A c \in LazyCells :
              IsSome(LazyCell(lazy_font_datas, c))
                 => FullyConstructed(c, Unwrap(LazyCell(lazy_font_datas, c))))'
       /\ \A i \in CacheIdxs :
             Replaces(i) => At(lazy_font_datas', i) = LazyFontCacheData_new
       /\ Len(lazy_font_datas') = Len(font_datas')]_vars

\* The entry at index 0 was replaced while its lazy data was populated, and
\* the shaping data of the index has been built again, from the bytes of
\* the replacing file.
C33_Witness ==
    /\ DOMAIN paths_to_font_idxs = {"a_ttf", "c_TTC"}
    /\ paths_to_font_idxs["a_ttf"] = <<>>
    /\ paths_to_font_idxs["c_TTC"] = <<0>>
    /\ IsSome(At(lazy_font_datas, 0).shaper_data)
    /\ Unwrap(At(lazy_font_datas, 0).ext_font_ref).data = 1
    /\ Unwrap(At(lazy_font_datas, 0).ext_font_ref).box = 2

\* An entry is about to be replaced whose lazy data is populated.
C33_WitnessDiscarded ==
    /\ ret.op = "load_font_file"
    /\ ret.cache_results[1].ok
    /\ ret.cache_results[1].val.kind = "New"
    /\ ret.cache_results[1].val.replaced = <<0>>
    /\ At(lazy_font_datas, 0) = LazyFontCacheData_new
    /\ \E t \in Threads : threads[t] = Idle

\* ------------------------------------------------ the flag and the device
\* C34: whenever the flag is clear the texture of the device holds the
\* bytes of the atlas buffer; a step that changes a byte of the atlas
\* buffer leaves the flag set, and a step that clears the flag leaves the
\* whole atlas buffer, untouched, in the texture of the device.
C34_CleanMeansUploaded ==
    [][/\ (~texture_data_dirty => gpu_texture = texture)'
       /\ texture' # texture => texture_data_dirty'
       /\ (texture_data_dirty /\ ~texture_data_dirty')
             => (gpu_texture' = texture /\ texture' = texture)]_vars

\* After an upload a glyph was inserted and uploaded too, and a request was
\* then answered from the glyph map with the flag clear.
C34_Witness ==
    /\ IsGlyphCall /\ glyph_ret.cached
    /\ ~texture_data_dirty
    /\ Cardinality(DOMAIN glyph_map) >= 2
    /\ gpu_texture = texture
    /\ \E i \in DOMAIN gpu_texture : gpu_texture[i] # 0

\* ------------------------------------------------- what a frame draws from
\* The step issues the draw call of a frame.
DrawIssued == glyph_ret.op # "draw_indexed" /\ glyph_ret'.op = "draw_indexed"

\* The bytes of the atlas the k-th glyph of the geometry refers to: its
\* four vertices carry the corners of its UV bounds.
BytesOfGlyph(k) ==
    LET top_left == vertices.pushed[4 * k - 3].tex_coords
        bottom_right == vertices.pushed[4 * k - 1].tex_coords
    IN  BytesOf([min_x |-> top_left[1], min_y |-> top_left[2],
                 max_x |-> bottom_right[1], max_y |-> bottom_right[2]])

\* The glyphs of the geometry prepared so far.
GlyphsPrepared == 1 .. (Len(vertices.pushed) \div 4)

\* C35: when the draw call of a frame is issued, the texture the draw
\* samples holds, for every glyph of the geometry, the bytes the atlas
\* buffer holds for it.
C35_DrawnGlyphsAreUploaded ==
    [][DrawIssued =>
          \A k \in GlyphsPrepared :
             \A o \in BytesOfGlyph(k) :
                glyph_ret'.sampled[o + 1] = texture[o + 1]]_vars

\* C35 holds of the frames that find every glyph they draw in the glyph
\* map: the flag is clear when the draw is issued.
C35_HoldsWhenNothingWasRasterized ==
    [][(DrawIssued /\ ~texture_data_dirty) =>
          \A k \in GlyphsPrepared :
             \A o \in BytesOfGlyph(k) :
                glyph_ret'.sampled[o + 1] = texture[o + 1]]_vars

\* The draw call of a frame that found its glyph in the glyph map has been
\* issued, and the texture of the device holds the glyph.
C35_Witness ==
    /\ glyph_ret.op = "draw_indexed"
    /\ ~texture_data_dirty
    /\ Len(vertices.pushed) = 8
    /\ \E i \in DOMAIN glyph_ret.sampled : glyph_ret.sampled[i] # 0

\* ------------------------------------------------ the settings of a shaper
\* The shaper holds the instance and the features of a shaper created with
\* the settings.
AsFreshlyCreated(settings) ==
    /\ Unwrap(shaper).shaper_instance = FontShaper_new(settings).shaper_instance
    /\ Unwrap(shaper).features = FontShaper_new(settings).features

\* _with_settings has returned.
WithSettingsReturned == glyph_ret.op = "_with_settings" /\ IsSome(shaper)

\* C36: after _with_settings(s), whatever the calls before it, the
\* instance and the features of the shaper are those of a shaper freshly
\* created with s.
C36_WithSettingsAsFreshlyCreated ==
    WithSettingsReturned => AsFreshlyCreated(glyph_ret.settings)

\* C36 holds of the settings that have both instance settings and features
\* and are not the ones the shaper was created with.
C36_HoldsOfOtherFullSettings ==
    (/\ WithSettingsReturned
     /\ IsSome(glyph_ret.settings.instance_settings)
     /\ IsSome(glyph_ret.settings.shape_features)
     /\ glyph_ret.settings # Unwrap(shaper)._shaper_settings)
        => AsFreshlyCreated(glyph_ret.settings)

\* _with_settings has returned for full settings that changed the instance
\* and the features of the shaper.
C36_Witness ==
    /\ WithSettingsReturned
    /\ IsSome(glyph_ret.settings.instance_settings)
    /\ IsSome(glyph_ret.settings.shape_features)
    /\ glyph_ret.settings # Unwrap(shaper)._shaper_settings
    /\ Unwrap(shaper).shaper_instance
          # FontShaper_new(Unwrap(shaper)._shaper_settings).shaper_instance
    /\ Unwrap(shaper).features
          # FontShaper_new(Unwrap(shaper)._shaper_settings).features

\* ------------------------------------------------- the indices of a buffer
\* The glyphs whose six indices the calls watched have pushed, counted from
\* zero over the whole buffer.
GlyphsPushed ==
    LET before == (indices.len - Len(indices.pushed)) \div 6
    IN  {before + j : j \in 0 .. (Len(indices.pushed) \div 6) - 1}

\* The six indices pushed for the k-th glyph of the buffer.
IndicesOfGlyph(k) ==
    LET before == (indices.len - Len(indices.pushed)) \div 6
        first == 6 * (k - before) + 1
    IN  {indices.pushed[p] : p \in first .. first + 5}

\* The indices pushed are those of the glyphs, each below the number of
\* vertices.
IndicesReferenceTheirGlyphs ==
    /\ \A p \in 1 .. Len(indices.pushed) : indices.pushed[p] < vertices.len
    /\ \A k \in GlyphsPushed : IndicesOfGlyph(k) = 4 * k .. 4 * k + 3

\* C37: after any number of prepare_draw_for_glyph calls on the same
\* buffers every index is smaller than the number of vertices, the six
\* indices of the k-th glyph are the vertices 4k to 4k+3, and no call has
\* stopped on an overflow of the 16-bit addition.
C37_IndicesWithinVerticesOfTheirGlyph ==
    glyph_ret.op = "prepare_draw_for_glyph"
        => (~glyph_panicked /\ IndicesReferenceTheirGlyphs)

\* C37 holds of the buffers that hold at most 65,536 vertices.
C37_HoldsUpToU16Max ==
    (glyph_ret.op = "prepare_draw_for_glyph" /\ vertices.len <= U16_MAX + 1)
        => (~glyph_panicked /\ IndicesReferenceTheirGlyphs)

\* Two glyphs have been prepared into buffers that held 65,528 vertices:
\* the last index pushed is 65,535.
C37_Witness ==
    /\ glyph_ret.op = "prepare_draw_for_glyph"
    /\ vertices.len = U16_MAX + 1
    /\ Len(indices.pushed) = 12
    /\ \E p \in 1 .. Len(indices.pushed) : indices.pushed[p] = U16_MAX

\* ------------------------------------------------- updates and frames
\* state_number minus frame_number
Ahead == app.state_number - app.frame_number

\* C38: state_number minus frame_number is always 0 or 1, whatever the
\* new_events ticks and the RedrawRequested events, so that should_update
\* or should_render can always become true again.
C38_StateAheadByZeroOrOne == Ahead \in {0, 1}

\* The step renders a frame when should_render is false.
UnaskedFrame == app'.frame_number > app.frame_number /\ ~should_render(app)

\* C38 holds as long as no frame is rendered when should_render is false:
\* every other step keeps the difference 0 or 1.
C38_HoldsOfAskedFrames ==
    [][(Ahead \in {0, 1} /\ ~UnaskedFrame) => (Ahead \in {0, 1})']_vars

\* Updates and frames have alternated twice.
C38_Witness ==
    /\ app.state_number = 3
    /\ app.frame_number = 3
    /\ app.redraw = FALSE

\* ------------------------------------------------- the size of a cache key
\* The step is a request that follows a request that returned, both for the
\* same face, glyph id and coordinates.
SecondRequest ==
    /\ IsGlyphCall /\ IsSome(glyph_ret.value)
    /\ glyph_ret'.op = "get_glyph_texture_bounds"
    /\ IsSome(glyph_ret'.args.size)
    /\ glyph_ret'.args.font = glyph_ret.args.font
    /\ glyph_ret'.args.glyph_id = glyph_ret.args.glyph_id
    /\ glyph_ret'.args.coords = glyph_ret.args.coords

\* The key get_glyph_texture_bounds computes for the arguments.
KeyOf(args) ==
    GlyphCacheKey(args.font, args.glyph_id, floor_as_u32(Unwrap(args.size)), args.coords)

\* The second request is a hit that returns what the first returned.
HitOfTheFirst ==
    /\ glyph_ret'.cached
    /\ glyph_ret'.value = glyph_ret.value
    /\ KeyOf(glyph_ret'.args) = KeyOf(glyph_ret.args)

\* C39: two requests for the same face, glyph id and coordinates whose
\* sizes round to the same integer pixels-per-em use the same key, the
\* second being a hit that returns the placement and the UV bounds of the
\* first; sizes that round to different integers use different keys.
C39_SameRoundedSizeSameKey ==
    [][SecondRequest =>
          IF round_as_u32(Unwrap(glyph_ret'.args.size))
                = round_as_u32(Unwrap(glyph_ret.args.size))
          THEN HitOfTheFirst
          ELSE KeyOf(glyph_ret'.args) # KeyOf(glyph_ret.args)]_vars

\* C39 as the cache keeps it: the sizes are rounded down.  Two requests
\* whose sizes have the same integer part use the same key and the second
\* is a hit that returns what the first returned; sizes with different
\* integer parts use different keys.
C39_SameIntegerPartSameKey ==
    [][SecondRequest =>
          IF Unwrap(glyph_ret'.args.size) \div 10 = Unwrap(glyph_ret.args.size) \div 10
          THEN HitOfTheFirst
          ELSE KeyOf(glyph_ret'.args) # KeyOf(glyph_ret.args)]_vars

\* A request at 24.5 pixels-per-em has been answered with the glyph
\* rasterized at 24: the only glyph of the atlas has the coverage of a
\* whole size.
C39_Witness ==
    /\ IsGlyphCall /\ IsSome(glyph_ret.value) /\ glyph_ret.cached
    /\ glyph_ret.args.size = Some(245)
    /\ Cardinality(DOMAIN glyph_map) = 1
    /\ \E i \in DOMAIN texture : (i - 1) % 4 = 0 /\ texture[i] = 200
    /\ \A i \in DOMAIN texture : (i - 1) % 4 = 0 => texture[i] # 100

\* ------------------------------------------------- the pixels of a blit
\* The step is a request that missed and put its glyph into the atlas.
BlitStep ==
    /\ glyph_ret'.op = "get_glyph_texture_bounds"
    /\ IsSome(glyph_ret'.value)
    /\ ~glyph_ret'.cached
    /\ glyph_map' # glyph_map

\* The four bytes of draw at offset from, and of tex at offset to.
ScratchPixel(draw, from) == <<draw[from + 1], draw[from + 2], draw[from + 3]>>
AtlasPixel(tex, to) == <<tex[to + 1], tex[to + 2], tex[to + 3], tex[to + 4]>>

\* C40: for every pixel of a blit the four bytes written to the atlas are
\* R, G and B as the scratch buffer holds them and the alpha
\* min(255, R + G + B): the sum saturates and does not wrap.
C40_BlitCopiesRGBSaturatesAlpha ==
    [][BlitStep =>
          LET key == KeyOf(glyph_ret'.args)
              rectangle == atlas'[glyph_map'[key][1]]
              placement == glyph_map'[key][2]
              start == rectangle.min_y * TextureRowSize + rectangle.min_x
          IN  \A row \in 0 .. placement.height - 1, value \in 0 .. placement.width - 1 :
                 LET rgb == ScratchPixel(draw_texture',
                                         (row * placement.width * 4) + value * 4)
                     sum == rgb[1] + rgb[2] + rgb[3]
                 IN  AtlasPixel(texture', start + row * TextureRowSize + value * 4)
                        = <<rgb[1], rgb[2], rgb[3], IF sum > 255 THEN 255 ELSE sum>>]_vars

\* A glyph has been put into the atlas whose pixels have channels that sum
\* to more than 255, and the atlas holds a pixel of another glyph whose
\* channels sum to less.
C40_Witness ==
    /\ IsGlyphCall /\ IsSome(glyph_ret.value) /\ ~glyph_ret.cached
    /\ \E i \in DOMAIN texture :
          /\ i % 4 = 0
          /\ texture[i - 3] + texture[i - 2] + texture[i - 1] > 255
          /\ texture[i] = 255
    /\ \E i \in DOMAIN texture :
          /\ i % 4 = 0
          /\ texture[i - 3] + texture[i - 2] + texture[i - 1] \in 1 .. 254
          /\ texture[i] = texture[i - 3] + texture[i - 2] + texture[i - 1]

====
